---- MODULE Spec2Model ----
(***************************************************************************)
(* A model of the sharded push engine of pranadb:                          *)
(*   - the per-shard on-disk state machine (ShardOnDiskStateMachine),      *)
(*   - the processor election calcProcessingNode,                          *)
(*   - the forwarder / receiver protocol of the push engine,               *)
(*   - the table executor and its fill protocol.                           *)
(* Each subsystem has its own specification over its own variables; the    *)
(* variables of the other subsystems stay at their initial value.          *)
(***************************************************************************)
EXTENDS Integers, Sequences, FiniteSets, Bags, TLC

VARIABLES
    \* ---- shard state machine (one raft group, one state machine per replica)
    smShardID,      \* shardID of the raft group
    testDragon,     \* Dragon.testDragon
    raftLog,        \* committed entries of the group, raftLog[i] is the command of index i
    smUp,           \* smUp[n]: the replica process of node n is running
    smApplied,      \* smApplied[n]: index of the last entry the runtime handed to Update
    smNodeIDs,      \* ShardOnDiskStateMachine.nodeIDs of the replica on node n
    smProcessor,    \* ShardOnDiskStateMachine.processor
    smListener,     \* ShardOnDiskStateMachine.shardListener: 0 is nil, else index in listeners[n]
    listeners,      \* listeners[n]: the shard listeners created on node n, in creation order
    pebble,         \* pebble[n]: the KV store of node n, a function from keys to values
    durable,        \* durable[n]: what of pebble[n] has reached the disk (writes are nosync)
    lastCall,       \* lastCall[n]: what the last Update call of replica n did, in order
    foreignOps,     \* foreignOps[n]: keys of another shard the state machine has put or deleted
    smReplay        \* smReplay[n]: "lost" once a crash lost applied entries, "replayed"
                    \* once Update has applied entries again after that, else "no"

VARIABLES
    \* ---- calls of calcProcessingNode
    calcNodeIDs,    \* the replica list of the calls
    calcShardID,    \* the shard of the calls
    calcResults     \* calcResults[n]: the results returned so far for nodeID n

smVars == <<smShardID, testDragon, raftLog, smUp, smApplied, smNodeIDs, smProcessor,
            smListener, listeners, pebble, durable, lastCall, foreignOps, smReplay>>

VARIABLES
    \* ---- the forwarder and the receiver of the push engine
    fwdStore,           \* the KV store: forwarder, receiver and sequence tables of the shards
    forwardSequences,   \* PushEngine.forwardSequences: the cached next forward sequences
    fwdTransfer,        \* fwdTransfer[s]: the transferData call of shard s in progress
    fwdQueuedCount,     \* fwdQueuedCount[s]: the QueueForRemoteSend calls of shard s so far
    fwdQueued,          \* the forwarder entries written by committed batches
    fwdHanded,          \* the rows handed to the row handler by committed receive batches, in order
    fwdDropped          \* the receiver entries discarded by committed receive batches

VARIABLES
    \* ---- TableExecutor and its FillTo
    lock,               \* TableExecutor.lock: "free" or "FillTo" (held for writing by FillTo)
    filling,            \* TableExecutor.filling
    lastSequences,      \* TableExecutor.lastSequences: shard -> last fill sequence
    uncommittedBatches, \* TableExecutor.uncommittedBatches: the shards stored in it
    consumingNodes,     \* TableExecutor.consumingNodes: the names of the consumers
    tableData,          \* the committed rows of the table: <<shard, pk>> -> row
    fillTableData,      \* the rows of the fill table: <<shard, sequence>> -> row
    proposed,           \* proposed[s]: the puts of the batch of shard s awaiting commit
    fillPC,             \* where FillTo is
    fillLocals,         \* the locals of FillTo: snapshot, startSeqs, endSequences, ...
    peRows,             \* the bag of the current rows passed to pe.HandleRows
    fillExpected,       \* the rows of the snapshot and the rows handled since
    handledCount,       \* handledCount.batches, .rows: the calls of HandleRows so far
    readLocks,          \* the read locks of TableExecutor.lock held by no running call
    proposedLocked      \* a WriteBatch was proposed while TableExecutor.lock was held

VARIABLES
    \* ---- MessageConsumer and its poll loop
    startupCommittedOffsets, \* MessageConsumer.startupCommittedOffsets: partition -> offset
    pollPC,             \* where pollLoop is: "poll", "handle", "commit" or "stopped"
    messages,           \* pollLoop: the messages of the batch
    offsetsToCommit,    \* pollLoop: the offsets of the batch, partition -> offset
    fetched,            \* the messages GetMessage returned to the last getBatch call
    handleResult,       \* handleMessages in this iteration: "none", "ok" or "failed"
    passed,             \* the messages passed to handleMessages by its last call
    commitCalls         \* the kinds of CommitOffsets calls so far: batch with messages, handleResult

VARIABLES
    \* ---- snapshots of the shard state machine
    sndPebble,          \* the KV store of the node that saves the snapshot
    snapshot,           \* the *pebble.Snapshot PrepareSnapshot returned: the store it saw
    snapWriter,         \* the bytes SaveSnapshot has written to its writer
    rcvPebble,          \* the KV store of the node that recovers
    rcvBefore,          \* rcvPebble when RecoverFromSnapshot was called
    rcvListener,        \* processor, shardListener and listeners of the recovering replica
    snapPC              \* "open", "prepared", "saved" or "recovered"

VARIABLES
    \* ---- one call of Dragon.executeWithRetry
    retryTimeout,       \* the timeout argument
    retryNow,           \* time.Now().Sub(start)
    retryPC,            \* "call": before f(), "sleep": before Sleep, "returned"
    retryCalls,         \* the errors the calls of f returned so far, in order
    retrySleeps,        \* the sleeps so far
    retryReturn         \* what executeWithRetry returned

VARIABLES
    \* ---- generateNodesAndShards on the nodes of a cluster
    genCnf,             \* numNodes, replicationFactor and numShards of the cluster
    genResult           \* genResult[n]: localShards, allShards, shardAllocs of node n

VARIABLES
    \* ---- one call of Server.ExecuteSQLStatement
    pageSize,           \* in.PageSize
    pageRemaining,      \* the rows of the result the executor has not returned yet
    pagePC,             \* "columns", "getRows", "send" or "returned"
    pageRows,           \* numRows of the page in hand
    pageSent,           \* what has been sent on the stream, see NothingSent
    pageErr             \* the call returned an error

VARIABLES
    \* ---- the sequence group and the calls of GenerateClusterSequence
    seqStore,           \* sequence state machine: name -> next value
    seqCalls,           \* node -> the call of GenerateClusterSequence in progress
    seqPending,         \* proposals handed to the group and not applied
    seqNextID,          \* identifies the proposals
    seqApplied,         \* the proposals in the order of their application
    seqReturns          \* what the successful calls returned, in the order of return

VARIABLES
    \* ---- one call of DeleteAllDataInRangeForAllShards
    delStore,           \* the Pebble store of the node
    delRange,           \* startPrefix and endPrefix of the call
    delPC,              \* goroutine of shard i: "run", "proposed" or "done"
    delProposal,        \* its proposal: "none", "pending", "applied" or "dropped"
    delChan,            \* chans[i]: "empty", "nil" or "err"
    delNext,            \* the channel the second loop reads next
    delReturn,          \* "none", "nil" or "err"
    delIndex,           \* the raft index of shard i
    delRemoved,         \* <<shard, key>> for the keys a DELETE_RANGE removed
    delWrittenAfter     \* keys put after the DELETE_RANGE of their shard

VARIABLES
    \* ---- the table of a table executor under successive HandleRows calls
    rowStore,           \* the rows of the table in the Pebble store
    rowBatchIn,         \* the rowsBatch of the HandleRows call in progress
    rowOut,             \* what its loop emitted and added to ctx.WriteBatch
    rowPC,              \* "idle", or "handled" while ctx.WriteBatch is in flight
    rowWritten,         \* per key, the row HandleRows wrote last (<<>>: deleted)
    rowCalls            \* calls of HandleRows so far

VARIABLES
    \* ---- MessageConsumer.Stop and the exit of pollLoop
    mcRunning,          \* m.running
    mcLoopCh,           \* values buffered in m.loopCh (capacity 1)
    mcLoopPC,           \* pollLoop: "check", "iter", "exitedStop" or "exitedError"
    mcStopPC,           \* Stop call of a caller: "none", "cas", "wait", "provider", "returned"
    mcStopWon,          \* whether the CompareAndSet of its last call succeeded
    mcStopCalls,        \* calls of Stop so far
    mcProviderStops     \* calls of msgProvider.Stop so far

VARIABLES
    \* ---- QueueForRemoteSend called by the schedulers of two local shards
    fqPC,               \* where the call of each local shard stands
    fqSequence,         \* its local variable sequence
    fqMap,              \* p.forwardSequences
    fqStored,           \* the forward sequence of each shard in the store
    fqReaders,          \* holders of p.lock.RLock()
    fqCalls,            \* calls of QueueForRemoteSend so far
    fqFatal             \* the Go runtime has detected a concurrent map access

calcVars == <<calcNodeIDs, calcShardID, calcResults>>

consVars == <<startupCommittedOffsets, pollPC, messages, offsetsToCommit, fetched,
              handleResult, passed, commitCalls>>

fillVars == <<lock, filling, lastSequences, uncommittedBatches, consumingNodes, tableData,
              fillTableData, proposed, fillPC, fillLocals, peRows, fillExpected,
              handledCount, readLocks, proposedLocked>>

fwdVars == <<fwdStore, forwardSequences, fwdTransfer, fwdQueuedCount, fwdQueued, fwdHanded,
             fwdDropped>>

snapVars == <<sndPebble, snapshot, snapWriter, rcvPebble, rcvBefore, rcvListener, snapPC>>

coreVars == <<smVars, calcVars, fwdVars, fillVars, consVars>>
retryVars == <<retryTimeout, retryNow, retryPC, retryCalls, retrySleeps, retryReturn>>
genVars == <<genCnf, genResult>>
pageVars == <<pageSize, pageRemaining, pagePC, pageRows, pageSent, pageErr>>
seqVars == <<seqStore, seqCalls, seqPending, seqNextID, seqApplied, seqReturns>>
delVars == <<delStore, delRange, delPC, delProposal, delChan, delNext, delReturn,
             delIndex, delRemoved, delWrittenAfter>>
rowVars == <<rowStore, rowBatchIn, rowOut, rowPC, rowWritten, rowCalls>>
stopVars == <<mcRunning, mcLoopCh, mcLoopPC, mcStopPC, mcStopWon, mcStopCalls, mcProviderStops>>
queueVars == <<fqPC, fqSequence, fqMap, fqStored, fqReaders, fqCalls, fqFatal>>
extVars == <<snapVars, retryVars, genVars, pageVars, seqVars, delVars, rowVars, stopVars, queueVars>>

vars == <<coreVars, extVars>>

\* what the actions of one subsystem leave alone
notSMVars == <<calcVars, fwdVars, fillVars, consVars, extVars>>
notCalcVars == <<smVars, fwdVars, fillVars, consVars, extVars>>
notConsVars == <<smVars, calcVars, fwdVars, fillVars, extVars>>
notFwdVars == <<smVars, calcVars, fillVars, consVars, extVars>>
notFillVars == <<smVars, calcVars, fwdVars, consVars, extVars>>
notSnapVars == <<coreVars, retryVars, genVars, pageVars, seqVars, delVars, rowVars, stopVars, queueVars>>
notRetryVars == <<coreVars, snapVars, genVars, pageVars, seqVars, delVars, rowVars, stopVars, queueVars>>
notGenVars == <<coreVars, snapVars, retryVars, pageVars, seqVars, delVars, rowVars, stopVars, queueVars>>
notPageVars == <<coreVars, snapVars, retryVars, genVars, seqVars, delVars, rowVars, stopVars, queueVars>>
notDelVars == <<coreVars, snapVars, retryVars, genVars, pageVars, seqVars, rowVars, stopVars, queueVars>>
notSeqVars == <<coreVars, snapVars, retryVars, genVars, pageVars, delVars, rowVars, stopVars, queueVars>>
notRowVars == <<coreVars, snapVars, retryVars, genVars, pageVars, seqVars, delVars, stopVars, queueVars>>
notStopVars == <<coreVars, snapVars, retryVars, genVars, pageVars, seqVars, delVars, rowVars, queueVars>>
notQueueVars == <<coreVars, snapVars, retryVars, genVars, pageVars, seqVars, delVars, rowVars, stopVars>>

----------------------------------------------------------------------------
(* Bounds of the model *)

MaxLog == 2          \* entries in the raft log
MaxUpdate == 2       \* entries the runtime hands to one Update call

----------------------------------------------------------------------------
(* Byte strings.  All modelled numbers are below 2^24, so the upper five   *)
(* bytes of a uint64 are zero.                                             *)

AppendUint64ToBufferBE(buf, n) ==
    buf \o <<0, 0, 0, 0, 0, (n \div 65536) % 256, (n \div 256) % 256, n % 256>>

AppendUint64ToBufferLE(buf, n) ==
    buf \o <<n % 256, (n \div 256) % 256, (n \div 65536) % 256, 0, 0, 0, 0, 0>>

RECURSIVE ReadBE(_, _, _, _)
ReadBE(buf, pos, left, acc) ==
    IF left = 0 THEN acc ELSE ReadBE(buf, pos + 1, left - 1, acc * 256 + buf[pos])

\* offset is 0-based as in the source
ReadUint64FromBufferBE(buf, offset) == ReadBE(buf, offset + 1, 8, 0)

RECURSIVE ReadLE(_, _, _)
ReadLE(buf, pos, left) ==
    IF left = 0 THEN 0 ELSE buf[pos] + 256 * ReadLE(buf, pos + 1, left - 1)

ReadUint64FromBufferLE(buf, offset) == ReadLE(buf, offset + 1, 8)

\* bytes.Compare(a, b) < 0: the order of the keys in Pebble
RECURSIVE BytesLess(_, _)
BytesLess(a, b) ==
    IF Len(b) = 0 THEN FALSE
    ELSE IF Len(a) = 0 THEN TRUE
    ELSE IF a[1] # b[1] THEN a[1] < b[1]
    ELSE BytesLess(Tail(a), Tail(b))

Range(s) == {s[i] : i \in DOMAIN s}

----------------------------------------------------------------------------
(* The KV store: a function from the keys it holds to their values, and a  *)
(* pebble.Batch: a sequence of operations applied atomically, in order.    *)

EmptyKV == [k \in {} |-> <<>>]

BatchSet(k, v) == [op |-> "set", key |-> k, val |-> v, end |-> <<>>]
BatchDelete(k) == [op |-> "delete", key |-> k, val |-> <<>>, end |-> <<>>]
BatchDeleteRange(s, e) == [op |-> "deleteRange", key |-> s, val |-> <<>>, end |-> e]

ApplyOp(kv, o) ==
    IF o.op = "set"
    THEN [k \in DOMAIN kv \cup {o.key} |-> IF k = o.key THEN o.val ELSE kv[k]]
    ELSE IF o.op = "delete"
    THEN [k \in DOMAIN kv \ {o.key} |-> kv[k]]
    ELSE [k \in {x \in DOMAIN kv : BytesLess(x, o.key) \/ ~BytesLess(x, o.end)} |-> kv[k]]

RECURSIVE PebbleApply(_, _)
PebbleApply(kv, batch) ==
    IF batch = <<>> THEN kv ELSE PebbleApply(ApplyOp(kv, Head(batch)), Tail(batch))

----------------------------------------------------------------------------
(* Cluster layout *)

AllNodes == <<0, 1, 2>>                \* allNodes of generateNodesAndShards
NumNodes == Len(AllNodes)
ReplicationFactor == Len(AllNodes)
Nodes == Range(AllNodes)
DataShardIDBase == 1000
ShardIDs == {DataShardIDBase + i : i \in 0..2}

\* d.shardAllocs[DataShardIDBase + i]
generateNodesAndShards(i) ==
    [j \in 1..ReplicationFactor |-> AllNodes[((i + (j - 1)) % NumNodes) + 1]]

calcProcessingNodeFirst(nodeIDs, shardID, nodeID) == nodeID = nodeIDs[1]

\* defined for a non-empty nodeIDs only: the source divides by len(nodeIDs)
calcProcessingNode(nodeIDs, shardID, nodeID) ==
    nodeID = nodeIDs[(shardID % Len(nodeIDs)) + 1]

----------------------------------------------------------------------------
(* Commands of the shard state machine *)

shardStateMachineCommandWrite == 1
shardStateMachineCommandForwardWrite == 2
shardStateMachineCommandRemoveNode == 3
shardStateMachineCommandDeleteRangePrefix == 4
shardStateMachineResponseOK == 1

KVPair(k, v) == [Key |-> k, Value |-> v]

Command(c, puts, deletes, node, s, e) ==
    [cmd |-> c, puts |-> puts, deletes |-> deletes, node |-> node,
     startPrefix |-> s, endPrefix |-> e]

\* Dragon.WriteBatch: the command that is proposed for a cluster.WriteBatch
WriteBatch(notifyRemote, puts, deletes) ==
    Command(IF notifyRemote THEN shardStateMachineCommandForwardWrite
            ELSE shardStateMachineCommandWrite, puts, deletes, 0, <<>>, <<>>)

RemoveNode(n) == Command(shardStateMachineCommandRemoveNode, <<>>, <<>>, n, <<>>, <<>>)

DeleteAllDataInRangeUpToNextShard(theShardID, startPrefix, endPrefix) ==
    Command(shardStateMachineCommandDeleteRangePrefix, <<>>, <<>>, 0,
            AppendUint64ToBufferBE(<<>>, theShardID) \o startPrefix,
            AppendUint64ToBufferBE(<<>>, theShardID + 1) \o endPrefix)

\* Dragon.DeleteAllDataInRangeForShard: both prefixes get the shard in front
DeleteAllDataInRangeForShard(theShardID, startPrefix, endPrefix) ==
    Command(shardStateMachineCommandDeleteRangePrefix, <<>>, <<>>, 0,
            AppendUint64ToBufferBE(<<>>, theShardID) \o startPrefix,
            AppendUint64ToBufferBE(<<>>, theShardID) \o endPrefix)

LastLogIndexReceivedTableID == 8

\* table.EncodeTableKeyPrefix: shardID then tableID, both big-endian
EncodeTableKeyPrefix(tableID, shardID) ==
    AppendUint64ToBufferBE(AppendUint64ToBufferBE(<<>>, shardID), tableID)

writeLastIndexValue(batch, val, shardID) ==
    batch \o <<BatchSet(EncodeTableKeyPrefix(LastLogIndexReceivedTableID, shardID),
                        AppendUint64ToBufferLE(<<>>, val))>>

loadLastProcessedRaftIndex(kv, shardID) ==
    LET key == EncodeTableKeyPrefix(LastLogIndexReceivedTableID, shardID)
    IN  IF key \in DOMAIN kv THEN ReadUint64FromBufferLE(kv[key], 0) ELSE 0

\* ShardOnDiskStateMachine.Open
Open(n) == loadLastProcessedRaftIndex(pebble[n], smShardID)

----------------------------------------------------------------------------
(* The handlers of ShardOnDiskStateMachine.  They thread a record st      *)
(* through the entries of one Update call:                                 *)
(*   batch      the pebble batch built so far                              *)
(*   nodeIDs, processor, listener   the fields of the state machine        *)
(*   lst        the listeners of the node                                  *)
(*   hasForward the local flag of Update                                   *)
(*   panic      the call has panicked                                      *)

NewListener == [open |-> TRUE, closes |-> 0, notified |-> 0]

checkKeyUnchecked(key) == FALSE

\* TRUE iff checkKey panics
checkKey(key) ==
    IF testDragon THEN FALSE
    ELSE smShardID # ReadUint64FromBufferBE(key, 0)

handleWriteDeletesFirst(st, c) ==
    [st EXCEPT !.batch = @ \o [i \in 1..Len(c.deletes) |-> BatchDelete(c.deletes[i])]
                           \o [i \in 1..Len(c.puts) |->
                                  BatchSet(c.puts[i].Key, c.puts[i].Value)]]

handleWrite(st, c) ==
    IF \/ \E i \in 1..Len(c.puts) : checkKey(c.puts[i].Key)
       \/ \E i \in 1..Len(c.deletes) : checkKey(c.deletes[i])
    THEN [st EXCEPT !.panic = TRUE]
    ELSE [st EXCEPT !.batch = @ \o [i \in 1..Len(c.puts) |->
                                       BatchSet(c.puts[i].Key, c.puts[i].Value)]
                                  \o [i \in 1..Len(c.deletes) |->
                                       BatchDelete(c.deletes[i])]]

handleRemoveNodeAlways(st, c, shardID, nodeID) ==
    LET newNodes == SelectSeq(st.nodeIDs, LAMBDA nid : nid # c.node)
        newProcessor == calcProcessingNode(newNodes, shardID, nodeID)
        closed == IF st.listener # 0
                  THEN [st.lst EXCEPT ![st.listener].open = FALSE,
                                      ![st.listener].closes = @ + 1]
                  ELSE st.lst
    IN  IF newProcessor
        THEN [st EXCEPT !.nodeIDs = newNodes, !.processor = TRUE,
                        !.lst = Append(closed, NewListener), !.listener = Len(closed) + 1]
        ELSE [st EXCEPT !.nodeIDs = newNodes, !.processor = FALSE, !.lst = closed]

\* handleRemoveNode without the Close of the listener of the old processor
handleRemoveNodeKeepingListener(st, c, shardID, nodeID) ==
    LET n == c.node
        found == \E i \in 1..Len(st.nodeIDs) : st.nodeIDs[i] = n
        newNodes == SelectSeq(st.nodeIDs, LAMBDA nid : nid # n)
    IN  IF ~found THEN st
        ELSE IF newNodes = <<>> THEN [st EXCEPT !.nodeIDs = newNodes, !.panic = TRUE]
        ELSE LET newProcessor == calcProcessingNode(newNodes, shardID, nodeID)
             IN  IF newProcessor = st.processor
                 THEN [st EXCEPT !.nodeIDs = newNodes]
                 ELSE IF newProcessor
                 THEN [st EXCEPT !.nodeIDs = newNodes, !.processor = TRUE,
                                 !.lst = Append(st.lst, NewListener),
                                 !.listener = Len(st.lst) + 1]
                 ELSE [st EXCEPT !.nodeIDs = newNodes, !.processor = FALSE]

handleRemoveNode(st, c, shardID, nodeID) ==
    LET n == c.node
        found == \E i \in 1..Len(st.nodeIDs) : st.nodeIDs[i] = n
        newNodes == SelectSeq(st.nodeIDs, LAMBDA nid : nid # n)
    IN  IF ~found THEN st
        ELSE IF newNodes = <<>> THEN [st EXCEPT !.nodeIDs = newNodes, !.panic = TRUE]
        ELSE LET newProcessor == calcProcessingNode(newNodes, shardID, nodeID)
                 closed == IF st.listener # 0
                           THEN [st.lst EXCEPT ![st.listener].open = FALSE,
                                               ![st.listener].closes = @ + 1]
                           ELSE st.lst
             IN  IF newProcessor = st.processor
                 THEN [st EXCEPT !.nodeIDs = newNodes]
                 ELSE IF newProcessor
                 THEN [st EXCEPT !.nodeIDs = newNodes, !.processor = TRUE,
                                 !.lst = Append(closed, NewListener),
                                 !.listener = Len(closed) + 1]
                 ELSE [st EXCEPT !.nodeIDs = newNodes, !.processor = FALSE,
                                 !.lst = closed]

handleDeleteRange(st, c) ==
    [st EXCEPT !.batch = Append(@, BatchDeleteRange(c.startPrefix, c.endPrefix))]

\* one iteration of the loop of Update
handleEntry(st, c, shardID, nodeID) ==
    IF st.panic THEN st
    ELSE IF c.cmd \in {shardStateMachineCommandWrite, shardStateMachineCommandForwardWrite}
    THEN LET w == handleWrite(st, c)
         IN  IF w.panic THEN w
             ELSE [w EXCEPT !.hasForward =
                              @ \/ (c.cmd = shardStateMachineCommandForwardWrite)]
    ELSE IF c.cmd = shardStateMachineCommandRemoveNode
    THEN handleRemoveNode(st, c, shardID, nodeID)
    ELSE handleDeleteRange(st, c)

RECURSIVE handleEntries(_, _, _, _)
handleEntries(st, entries, shardID, nodeID) ==
    IF entries = <<>> THEN st
    ELSE handleEntries(handleEntry(st, Head(entries).Cmd, shardID, nodeID),
                       Tail(entries), shardID, nodeID)

lastLogIndexFirst(entries) == entries[1].Index

lastLogIndex(entries) == entries[Len(entries)].Index

maybeTriggerUnguarded(st) ==
    IF st.listener # 0
    THEN [st.lst EXCEPT ![st.listener].notified = @ + 1]
    ELSE st.lst

\* s.maybeTriggerRemoteWriteOccurred: the listeners after the call
maybeTriggerRemoteWriteOccurred(st) ==
    IF st.processor
    THEN [st.lst EXCEPT ![st.listener].notified = @ + 1]
    ELSE st.lst

----------------------------------------------------------------------------
(* Actions of the shard state machine *)

\* the subsystems at rest
SnapIdle ==
    /\ sndPebble = <<>>
    /\ snapshot = <<>>
    /\ snapWriter = <<>>
    /\ rcvPebble = <<>>
    /\ rcvBefore = <<>>
    /\ rcvListener = <<>>
    /\ snapPC = "idle"

RetryIdle ==
    /\ retryTimeout = 0
    /\ retryNow = 0
    /\ retryPC = "idle"
    /\ retryCalls = <<>>
    /\ retrySleeps = 0
    /\ retryReturn = <<>>

GenIdle ==
    /\ genCnf = <<>>
    /\ genResult = <<>>

PageIdle ==
    /\ pageSize = 0
    /\ pageRemaining = 0
    /\ pagePC = "idle"
    /\ pageRows = 0
    /\ pageSent = <<>>
    /\ pageErr = FALSE

SeqIdle ==
    /\ seqStore = <<>>
    /\ seqCalls = <<>>
    /\ seqPending = {}
    /\ seqNextID = 0
    /\ seqApplied = <<>>
    /\ seqReturns = <<>>

DelIdle ==
    /\ delStore = <<>>
    /\ delRange = <<>>
    /\ delPC = <<>>
    /\ delProposal = <<>>
    /\ delChan = <<>>
    /\ delNext = 0
    /\ delReturn = "idle"
    /\ delIndex = <<>>
    /\ delRemoved = {}
    /\ delWrittenAfter = {}

RowIdle ==
    /\ rowStore = <<>>
    /\ rowBatchIn = <<>>
    /\ rowOut = <<>>
    /\ rowPC = "off"
    /\ rowWritten = <<>>
    /\ rowCalls = 0

StopIdle ==
    /\ mcRunning = FALSE
    /\ mcLoopCh = 0
    /\ mcLoopPC = "off"
    /\ mcStopPC = <<>>
    /\ mcStopWon = <<>>
    /\ mcStopCalls = 0
    /\ mcProviderStops = 0

QueueIdle ==
    /\ fqPC = <<>>
    /\ fqSequence = <<>>
    /\ fqMap = <<>>
    /\ fqStored = <<>>
    /\ fqReaders = 0
    /\ fqCalls = 0
    /\ fqFatal = FALSE

ExtIdle ==
    /\ SnapIdle
    /\ RetryIdle
    /\ GenIdle
    /\ PageIdle
    /\ SeqIdle
    /\ DelIdle
    /\ RowIdle
    /\ StopIdle
    /\ QueueIdle

ConsIdle ==
    /\ startupCommittedOffsets = <<>>
    /\ pollPC = "stopped"
    /\ messages = <<>>
    /\ offsetsToCommit = <<>>
    /\ fetched = <<>>
    /\ handleResult = "none"
    /\ passed = {}
    /\ commitCalls = {}

CalcIdle ==
    /\ calcNodeIDs = <<>>
    /\ calcShardID = 0
    /\ calcResults = <<>>

FillIdle ==
    /\ lock = "free"
    /\ filling = FALSE
    /\ lastSequences = <<>>
    /\ uncommittedBatches = {}
    /\ consumingNodes = {}
    /\ tableData = <<>>
    /\ fillTableData = <<>>
    /\ proposed = <<>>
    /\ fillPC = "idle"
    /\ fillLocals = <<>>
    /\ peRows = <<>>
    /\ fillExpected = {}
    /\ handledCount = <<>>
    /\ readLocks = 0
    /\ proposedLocked = FALSE

FwdIdle ==
    /\ fwdStore = <<>>
    /\ forwardSequences = <<>>
    /\ fwdTransfer = <<>>
    /\ fwdQueuedCount = <<>>
    /\ fwdQueued = {}
    /\ fwdHanded = <<>>
    /\ fwdDropped = {}

SMIdle ==
    /\ smShardID = 0
    /\ testDragon = FALSE
    /\ raftLog = <<>>
    /\ smUp = <<>>
    /\ smApplied = <<>>
    /\ smNodeIDs = <<>>
    /\ smProcessor = <<>>
    /\ smListener = <<>>
    /\ listeners = <<>>
    /\ pebble = <<>>
    /\ durable = <<>>
    /\ lastCall = <<>>
    /\ foreignOps = <<>>
    /\ smReplay = <<>>

CoreIdle ==
    /\ SMIdle
    /\ CalcIdle
    /\ FwdIdle
    /\ FillIdle
    /\ ConsIdle

NoCall == [first |-> 0, index |-> 0, hasForward |-> FALSE, processor |-> FALSE, notified |-> 0,
           kvIndex |-> 0, panicked |-> FALSE]

RECURSIVE NotifiedTotal(_)
NotifiedTotal(lst) ==
    IF lst = <<>> THEN 0 ELSE Head(lst).notified + NotifiedTotal(Tail(lst))

\* newShardODStateMachine: the fields of a fresh state machine of node n
newShardODStateMachine(shardID, nodeID, nodeIDs) ==
    LET processor == calcProcessingNode(nodeIDs, shardID, nodeID)
    IN  [nodeIDs |-> nodeIDs, processor |-> processor,
         listener |-> IF processor THEN 1 ELSE 0,
         lst |-> IF processor THEN <<NewListener>> ELSE <<>>]

shardAllocs(shardID) == generateNodesAndShards(shardID - DataShardIDBase)

SMInitFor(shards, flags) ==
    /\ smShardID \in shards
    /\ testDragon \in flags
    /\ raftLog = <<>>
    /\ smUp = [n \in Nodes |-> TRUE]
    /\ smApplied = [n \in Nodes |-> 0]
    /\ smNodeIDs = [n \in Nodes |-> shardAllocs(smShardID)]
    /\ smProcessor = [n \in Nodes |->
                        newShardODStateMachine(smShardID, n, shardAllocs(smShardID)).processor]
    /\ smListener = [n \in Nodes |->
                        newShardODStateMachine(smShardID, n, shardAllocs(smShardID)).listener]
    /\ listeners = [n \in Nodes |->
                        newShardODStateMachine(smShardID, n, shardAllocs(smShardID)).lst]
    /\ pebble = [n \in Nodes |-> EmptyKV]
    /\ durable = [n \in Nodes |-> EmptyKV]
    /\ lastCall = [n \in Nodes |-> NoCall]
    /\ foreignOps = [n \in Nodes |-> {}]
    /\ smReplay = [n \in Nodes |-> "no"]
    /\ CalcIdle
    /\ FwdIdle
    /\ FillIdle
    /\ ConsIdle
    /\ ExtIdle

\* a client proposal is committed by the raft group
Propose(c) ==
    /\ Len(raftLog) < MaxLog
    /\ raftLog' = Append(raftLog, c)
    /\ UNCHANGED <<smShardID, testDragon, smUp, smApplied, smNodeIDs, smProcessor,
                   smListener, listeners, pebble, durable, lastCall, foreignOps,
                   smReplay>>
    /\ UNCHANGED notSMVars

\* the keys of the set and delete operations of a batch that carry another shard
ForeignKeys(batch) ==
    {batch[i].key : i \in {j \in 1..Len(batch) :
        /\ batch[j].op \in {"set", "delete"}
        /\ ReadUint64FromBufferBE(batch[j].key, 0) # smShardID}}

\* the process of node n stops: its state machine and its listeners are gone
Stopped(n) ==
    /\ smUp' = [smUp EXCEPT ![n] = FALSE]
    /\ smApplied' = [smApplied EXCEPT ![n] = 0]
    /\ smNodeIDs' = [smNodeIDs EXCEPT ![n] = <<>>]
    /\ smProcessor' = [smProcessor EXCEPT ![n] = FALSE]
    /\ smListener' = [smListener EXCEPT ![n] = 0]
    /\ listeners' = [listeners EXCEPT ![n] = <<>>]

\* ShardOnDiskStateMachine.Update on the next cnt committed entries
Update(n, cnt) ==
    /\ smUp[n]
    /\ cnt \in 1..MaxUpdate
    /\ smApplied[n] + cnt <= Len(raftLog)
    /\ LET entries == [i \in 1..cnt |->
                          [Index |-> smApplied[n] + i, Cmd |-> raftLog[smApplied[n] + i]]]
           st0 == [batch |-> <<>>, nodeIDs |-> smNodeIDs[n], processor |-> smProcessor[n],
                   listener |-> smListener[n], lst |-> listeners[n],
                   hasForward |-> FALSE, panic |-> FALSE]
           key == EncodeTableKeyPrefix(LastLogIndexReceivedTableID, smShardID)
       IN  \E st \in {handleEntries(st0, entries, smShardID, n)} :
           IF st.panic
           THEN /\ Stopped(n)
                /\ lastCall' = [lastCall EXCEPT ![n] =
                                   [NoCall EXCEPT !.first = entries[1].Index,
                                                  !.index = entries[cnt].Index,
                                                  !.panicked = TRUE]]
                /\ UNCHANGED <<pebble, foreignOps, smReplay>>
           ELSE \* vb is still empty at the first Set: the result of the append
                \* is dropped; writeLastIndexValue sets the key again
                \E batch \in {writeLastIndexValue(Append(st.batch, BatchSet(key, <<>>)),
                                                  lastLogIndex(entries), smShardID)} :
                \E kvAfter \in {PebbleApply(pebble[n], batch)} :
                \E lstAfter \in {IF st.hasForward THEN maybeTriggerRemoteWriteOccurred(st)
                                 ELSE st.lst} :
                LET calls == NotifiedTotal(lstAfter) - NotifiedTotal(st.lst)
                IN  /\ pebble' = [pebble EXCEPT ![n] = kvAfter]
                    /\ smApplied' = [smApplied EXCEPT ![n] = entries[cnt].Index]
                    /\ smNodeIDs' = [smNodeIDs EXCEPT ![n] = st.nodeIDs]
                    /\ smProcessor' = [smProcessor EXCEPT ![n] = st.processor]
                    /\ smListener' = [smListener EXCEPT ![n] = st.listener]
                    /\ listeners' = [listeners EXCEPT ![n] = lstAfter]
                    /\ foreignOps' = [foreignOps EXCEPT ![n] = @ \cup ForeignKeys(batch)]
                    /\ lastCall' = [lastCall EXCEPT ![n] =
                          [first |-> entries[1].Index,
                           index |-> entries[cnt].Index, hasForward |-> st.hasForward,
                           processor |-> st.processor, notified |-> calls,
                           kvIndex |-> IF calls > 0
                                       THEN loadLastProcessedRaftIndex(kvAfter, smShardID)
                                       ELSE 0,
                           panicked |-> FALSE]]
                    /\ smReplay' = [smReplay EXCEPT ![n] =
                                       IF @ = "lost" THEN "replayed" ELSE @]
                    /\ UNCHANGED smUp
    /\ UNCHANGED <<smShardID, testDragon, raftLog, durable>>
    /\ UNCHANGED notSMVars

\* the writes applied so far reach the disk (Sync, or the WAL is flushed)
Flush(n) ==
    /\ smUp[n]
    /\ durable[n] # pebble[n]
    /\ durable' = [durable EXCEPT ![n] = pebble[n]]
    /\ UNCHANGED <<smShardID, testDragon, raftLog, smUp, smApplied, smNodeIDs,
                   smProcessor, smListener, listeners, pebble, lastCall, foreignOps,
                   smReplay>>
    /\ UNCHANGED notSMVars

\* the process of node n dies; with lose the machine dies too and the writes
\* that had not reached the disk are lost
Crash(n, lose) ==
    /\ smUp[n]
    /\ lose => durable[n] # pebble[n]
    /\ Stopped(n)
    /\ pebble' = [pebble EXCEPT ![n] = IF lose THEN durable[n] ELSE pebble[n]]
    /\ lastCall' = [lastCall EXCEPT ![n] = NoCall]
    /\ smReplay' = [smReplay EXCEPT ![n] =
                       IF lose /\ loadLastProcessedRaftIndex(durable[n], smShardID) < Open(n)
                       THEN "lost" ELSE @]
    /\ UNCHANGED <<smShardID, testDragon, raftLog, durable, foreignOps>>
    /\ UNCHANGED notSMVars

\* node n starts again: newShardODStateMachine, then Open; the runtime replays
\* the entries after the index that Open returns
Restart(n) ==
    /\ ~smUp[n]
    /\ LET ssm == newShardODStateMachine(smShardID, n, shardAllocs(smShardID))
       IN  /\ smNodeIDs' = [smNodeIDs EXCEPT ![n] = ssm.nodeIDs]
           /\ smProcessor' = [smProcessor EXCEPT ![n] = ssm.processor]
           /\ smListener' = [smListener EXCEPT ![n] = ssm.listener]
           /\ listeners' = [listeners EXCEPT ![n] = ssm.lst]
    /\ smUp' = [smUp EXCEPT ![n] = TRUE]
    /\ smApplied' = [smApplied EXCEPT ![n] = Open(n)]
    /\ lastCall' = [lastCall EXCEPT ![n] = NoCall]
    /\ UNCHANGED <<smShardID, testDragon, raftLog, pebble, durable, foreignOps,
                   smReplay>>
    /\ UNCHANGED notSMVars

----------------------------------------------------------------------------
(* SpecKV: one replica of the group (node 0) applies writes and range      *)
(* deletes, with crashes and replay.                                       *)

KeyA == AppendUint64ToBufferBE(<<>>, smShardID) \o <<1>>
KeyB == AppendUint64ToBufferBE(<<>>, smShardID) \o <<2>>
KeyOther == AppendUint64ToBufferBE(<<>>, smShardID + 1) \o <<1>>

KVCommands ==
    { WriteBatch(FALSE, <<KVPair(KeyA, <<1>>)>>, <<>>),
      WriteBatch(FALSE, <<KVPair(KeyB, <<2>>)>>, <<KeyA>>),
      WriteBatch(TRUE, <<KVPair(KeyA, <<2>>)>>, <<>>),
      WriteBatch(FALSE, <<KVPair(KeyB, <<1>>)>>, <<KeyB>>),
      WriteBatch(FALSE, <<KVPair(KeyOther, <<1>>)>>, <<KeyOther>>),
      DeleteAllDataInRangeForShard(smShardID, <<1>>, <<2>>),
      DeleteAllDataInRangeForShard(smShardID, <<>>, <<255>>) }

KVNode == AllNodes[1]

InitKV == SMInitFor({DataShardIDBase + 1}, BOOLEAN)

NextKV ==
    \/ \E c \in KVCommands : Propose(c)
    \/ \E cnt \in 1..MaxUpdate : Update(KVNode, cnt)
    \/ Flush(KVNode)
    \/ \E lose \in BOOLEAN : Crash(KVNode, lose)
    \/ Restart(KVNode)

SpecKV == InitKV /\ [][NextKV]_vars

----------------------------------------------------------------------------
(* SpecMembers: the replicas of nodes 0 and 1 apply REMOVE_NODE and        *)
(* (forward) writes, and restart; the replica of node 2 lags behind.       *)

MemberCommands ==
    {RemoveNode(n) : n \in Nodes}
        \cup {WriteBatch(TRUE, <<>>, <<>>), WriteBatch(FALSE, <<>>, <<>>)}

MemberNodes == {0, 1}

InitMembers == SMInitFor(ShardIDs, {FALSE})

NextMembers ==
    \/ \E c \in MemberCommands : Propose(c)
    \/ \E n \in MemberNodes, cnt \in 1..MaxUpdate : Update(n, cnt)
    \/ \E n \in MemberNodes : Crash(n, FALSE)
    \/ \E n \in MemberNodes : Restart(n)

SpecMembers == InitMembers /\ [][NextMembers]_vars

----------------------------------------------------------------------------
(* SpecCalc: calcProcessingNode is called, any number of times, for the    *)
(* nodes of a replica list of distinct node IDs and for a node outside it. *)

MaxShardOffset == 5     \* the shards are DataShardIDBase .. DataShardIDBase + MaxShardOffset

CalcNodeIDs == Nodes \cup {7}

\* the non-empty lists of distinct node IDs
ReplicaLists ==
    {l \in UNION {[1..k -> Nodes] : k \in 1..Cardinality(Nodes)} :
        \A i, j \in DOMAIN l : i # j => l[i] # l[j]}

InitCalc ==
    /\ calcNodeIDs \in ReplicaLists
    /\ calcShardID \in DataShardIDBase .. DataShardIDBase + MaxShardOffset
    /\ calcResults = [n \in CalcNodeIDs |-> {}]
    /\ SMIdle
    /\ FwdIdle
    /\ FillIdle
    /\ ConsIdle
    /\ ExtIdle

CallCalcProcessingNode(nodeID) ==
    /\ calcResults' = [calcResults EXCEPT ![nodeID] =
                          @ \cup {calcProcessingNode(calcNodeIDs, calcShardID, nodeID)}]
    /\ UNCHANGED <<calcNodeIDs, calcShardID>>
    /\ UNCHANGED notCalcVars

NextCalc == \E nodeID \in CalcNodeIDs : CallCalcProcessingNode(nodeID)

SpecCalc == InitCalc /\ [][NextCalc]_vars

\* the 0-based position shardID mod R, without the operator %
ModPosition(shardID, r) ==
    CHOOSE p \in 0..(r - 1) : \E m \in 0..shardID : shardID = m * r + p

\* C6: every call for the node at position shardID mod R of the list returns
\* true, every call for another node returns false, so exactly one node of
\* the list is the processor, and repeated calls return the same answer.
C6_ExactlyOneProcessor ==
    LET r == Len(calcNodeIDs)
        chosen == calcNodeIDs[ModPosition(calcShardID, r) + 1]
    IN  /\ \A n \in CalcNodeIDs : calcResults[n] \subseteq {n = chosen}
        /\ \A n \in CalcNodeIDs : Cardinality(calcResults[n]) <= 1
        /\ (\A n \in Range(calcNodeIDs) : calcResults[n] # {}) =>
               Cardinality({n \in Range(calcNodeIDs) : TRUE \in calcResults[n]}) = 1

\* every node has been asked, for a list of three and a shard whose processor
\* is not the first of the list
C6_Witness ==
    /\ Len(calcNodeIDs) = 3
    /\ \A n \in CalcNodeIDs : calcResults[n] # {}
    /\ TRUE \in calcResults[calcNodeIDs[3]]

----------------------------------------------------------------------------
(* The forwarder and the receiver of the push engine.  One node is the     *)
(* processor of the shards FwdShards; fwdStore holds the forwarder,        *)
(* receiver and sequence tables of these shards (every key carries the     *)
(* shard that owns it).                                                    *)

ForwarderTableID == 1
ForwarderSequenceTableID == 2
ReceiverTableID == 3
ReceiverSequenceTableID == 4

ScanLimit == 100        \* the limit transferData and handleReceivedRows pass to LocalScan

MaxQueued == 2          \* QueueForRemoteSend calls per sending shard
MaxBatchRows == 2       \* rows one processed batch forwards

FwdShards == {DataShardIDBase, DataShardIDBase + 1}
RemoteConsumerIDs == {5}

\* the shards whose schedulers process batches that forward rows
FwdSenders == {DataShardIDBase}

\* rows a shard has forwarded, to shards outside FwdShards, before the run starts
PriorForwarded == {0, 254}

IsPrefix(p, k) == Len(p) <= Len(k) /\ SubSeq(k, 1, Len(p)) = p

LocalGet(kv, key) == IF key \in DOMAIN kv THEN kv[key] ELSE <<>>

\* the keys of S in the order of the Pebble iterator
RECURSIVE SortKeys(_)
SortKeys(S) ==
    IF S = {} THEN <<>>
    ELSE LET m == CHOOSE k \in S : \A o \in S \ {k} : BytesLess(k, o)
         IN  <<m>> \o SortKeys(S \ {m})

scanWithIter(kv, keys, limit) ==
    LET sorted == SortKeys(keys)
        n == IF limit = -1 \/ Len(sorted) < limit THEN Len(sorted) ELSE limit
    IN  [i \in 1..n |-> KVPair(sorted[i], kv[sorted[i]])]

\* the entries whose key starts with whileKeyPrefix, from startKeyPrefix on
LocalScan(kv, startKeyPrefix, whileKeyPrefix, limit) ==
    scanWithIter(kv, {k \in DOMAIN kv : /\ IsPrefix(whileKeyPrefix, k)
                                        /\ ~BytesLess(k, startKeyPrefix)}, limit)

NewWriteBatch(shardID, notifyRemote) ==
    [ShardID |-> shardID, NotifyRemote |-> notifyRemote, puts |-> <<>>, deletes |-> <<>>]

AddPut(batch, k, v) == [batch EXCEPT !.puts = Append(@, KVPair(k, v))]
AddDelete(batch, k) == [batch EXCEPT !.deletes = Append(@, k)]

\* a committed cluster.WriteBatch: the puts, then the deletes, in one atomic batch
ApplyWriteBatch(kv, batch) ==
    PebbleApply(kv, [i \in 1..Len(batch.puts) |-> BatchSet(batch.puts[i].Key, batch.puts[i].Value)]
                    \o [i \in 1..Len(batch.deletes) |-> BatchDelete(batch.deletes[i])])

genForwardSequenceKey(localShardID) ==
    AppendUint64ToBufferLE(AppendUint64ToBufferLE(<<>>, ForwarderSequenceTableID), localShardID)

genReceivingSequenceKey(receivingShardID, sendingShardID) ==
    AppendUint64ToBufferLE(
        AppendUint64ToBufferLE(AppendUint64ToBufferLE(<<>>, ReceiverSequenceTableID),
                               receivingShardID),
        sendingShardID)

\* the sequence returned and the cache after the call
nextForwardSequence(cache, kv, localShardID) ==
    IF localShardID \in DOMAIN cache
    THEN [sequence |-> cache[localShardID], cache |-> cache]
    ELSE LET seqBytes == LocalGet(kv, genForwardSequenceKey(localShardID))
         IN  IF seqBytes = <<>>
             THEN [sequence |-> 1, cache |-> cache]
             ELSE [sequence |-> ReadUint64FromBufferLE(seqBytes, 0),
                   cache |-> [s \in DOMAIN cache \cup {localShardID} |->
                                 IF s = localShardID
                                 THEN ReadUint64FromBufferLE(seqBytes, 0) ELSE cache[s]]]

updateNextForwardSequenceStale(st, localShardID, sequence) ==
    [cache |-> [s \in DOMAIN st.cache \cup {localShardID} |->
                   IF s = localShardID THEN sequence ELSE st.cache[s]],
     batch |-> AddPut(st.batch, genForwardSequenceKey(localShardID),
                      AppendUint64ToBufferLE(<<>>, sequence - 1))]

\* st = [cache, batch]; the batch and the cache after the call
updateNextForwardSequence(st, localShardID, sequence) ==
    [cache |-> [s \in DOMAIN st.cache \cup {localShardID} |->
                   IF s = localShardID THEN sequence ELSE st.cache[s]],
     batch |-> AddPut(st.batch, genForwardSequenceKey(localShardID),
                      AppendUint64ToBufferLE(<<>>, sequence))]

ForwarderKey(localShardID, remoteShardID, sequence, remoteConsumerID) ==
    AppendUint64ToBufferLE(
        AppendUint64ToBufferLE(
            AppendUint64ToBufferLE(
                AppendUint64ToBufferLE(AppendUint64ToBufferLE(<<>>, ForwarderTableID),
                                       localShardID),
                remoteShardID),
            sequence),
        remoteConsumerID)

QueueForRemoteSend(st, kv, remoteShardID, row, localShardID, remoteConsumerID) ==
    LET next == nextForwardSequence(st.cache, kv, localShardID)
        queueKeyBytes == ForwarderKey(localShardID, remoteShardID, next.sequence,
                                      remoteConsumerID)
    IN  updateNextForwardSequence(
            [cache |-> next.cache, batch |-> AddPut(st.batch, queueKeyBytes, row)],
            localShardID, next.sequence + 1)

\* the loop of transferData over the scanned pairs: the forwardBatches built
RECURSIVE transferBatches(_, _, _, _, _)
transferBatches(kvPairs, localShardID, batches, remoteShardID, first) ==
    IF kvPairs = <<>> THEN batches
    ELSE LET key == Head(kvPairs).Key
             currRemoteShardID == ReadUint64FromBufferLE(key, 16)
             startNew == first \/ remoteShardID # currRemoteShardID
             bs == IF startNew
                   THEN Append(batches,
                               [addBatch |-> NewWriteBatch(currRemoteShardID, TRUE),
                                deleteBatch |-> NewWriteBatch(localShardID, FALSE)])
                   ELSE batches
             remote == IF startNew THEN currRemoteShardID ELSE remoteShardID
             remoteKey ==
                 AppendUint64ToBufferLE(
                     AppendUint64ToBufferLE(AppendUint64ToBufferLE(<<>>, ReceiverTableID),
                                            remote),
                     localShardID) \o SubSeq(key, Len(key) - 16 + 1, Len(key))
             batch == bs[Len(bs)]
         IN  transferBatches(Tail(kvPairs), localShardID,
                 [bs EXCEPT ![Len(bs)] =
                     [addBatch |-> AddPut(batch.addBatch, remoteKey, Head(kvPairs).Value),
                      deleteBatch |-> AddDelete(batch.deleteBatch, key)]],
                 remote, FALSE)

lastReceivingSequence(kv, receivingShardID, sendingShardID) ==
    LET seqBytes == LocalGet(kv, genReceivingSequenceKey(receivingShardID, sendingShardID))
    IN  IF seqBytes = <<>> THEN 0 ELSE ReadUint64FromBufferLE(seqBytes, 0)

updateLastReceivingSequenceLowByte(batch, receivingShardID, sendingShardID, sequence) ==
    AddPut(batch, genReceivingSequenceKey(receivingShardID, sendingShardID),
           AppendUint64ToBufferLE(<<>>, sequence % 256))

updateLastReceivingSequence(batch, receivingShardID, sendingShardID, sequence) ==
    AddPut(batch, genReceivingSequenceKey(receivingShardID, sendingShardID),
           AppendUint64ToBufferLE(<<>>, sequence))

isNewRowOrLast(receivedSeq, lastReceivedSeq) == receivedSeq >= lastReceivedSeq

\* the test of handleReceivedRows for a row not seen before
isNewRow(receivedSeq, lastReceivedSeq) == receivedSeq > lastReceivedSeq

HandedRow(receiver, sender, seq, consumer) ==
    [receiver |-> receiver, sender |-> sender, seq |-> seq, consumer |-> consumer]

RowID(receiver, sender, seq) == [receiver |-> receiver, sender |-> sender, seq |-> seq]

\* the loop of handleReceivedRows over the scanned pairs.  st holds
\*   receivingSequences, remoteConsumerRows, batch   the locals of the function
\*   accepted   the rows appended to remoteConsumerRows, in order
\*   discarded  the entries that were only deleted
RECURSIVE receiveLoop(_, _, _, _)
receiveLoop(kvPairs, kv, receivingShardID, st) ==
    IF kvPairs = <<>> THEN st
    ELSE LET key == Head(kvPairs).Key
             sendingShardID == ReadUint64FromBufferLE(key, 16)
             lastReceivedSeq ==
                 IF sendingShardID \in DOMAIN st.receivingSequences
                 THEN st.receivingSequences[sendingShardID]
                 ELSE lastReceivingSequence(kv, receivingShardID, sendingShardID)
             receivedSeq == ReadUint64FromBufferLE(key, 24)
             remoteConsumerID == ReadUint64FromBufferLE(key, 32)
             rows == IF remoteConsumerID \in DOMAIN st.remoteConsumerRows
                     THEN st.remoteConsumerRows[remoteConsumerID] ELSE <<>>
             st1 == IF isNewRow(receivedSeq, lastReceivedSeq)
                    THEN [st EXCEPT
                            !.remoteConsumerRows =
                                [c \in DOMAIN @ \cup {remoteConsumerID} |->
                                    IF c = remoteConsumerID
                                    THEN Append(rows, Head(kvPairs).Value) ELSE @[c]],
                            !.receivingSequences =
                                [sh \in DOMAIN @ \cup {sendingShardID} |->
                                    IF sh = sendingShardID THEN receivedSeq ELSE @[sh]],
                            !.accepted = Append(@, HandedRow(receivingShardID, sendingShardID,
                                                             receivedSeq, remoteConsumerID))]
                    ELSE [st EXCEPT
                            !.discarded = @ \cup {RowID(receivingShardID, sendingShardID,
                                                        receivedSeq)}]
         IN  receiveLoop(Tail(kvPairs), kv, receivingShardID,
                         [st1 EXCEPT !.batch = AddDelete(@, key)])

updateReceivingSequencesNone(batch, receivingShardID, receivingSequences, senders) ==
    batch

\* the sequence updates of handleReceivedRows, one per sender with accepted rows
RECURSIVE updateReceivingSequences(_, _, _, _)
updateReceivingSequences(batch, receivingShardID, receivingSequences, senders) ==
    IF senders = {} THEN batch
    ELSE LET sendingShardID == CHOOSE sh \in senders : TRUE
         IN  updateReceivingSequences(
                 updateLastReceivingSequence(batch, receivingShardID, sendingShardID,
                                             receivingSequences[sendingShardID]),
                 receivingShardID, receivingSequences, senders \ {sendingShardID})

----------------------------------------------------------------------------
(* Actions of the forwarder and the receiver *)

NoTransfer == [batches |-> <<>>, del |-> FALSE, step |-> "add"]

\* the forwarder entries a batch writes
QueuedBy(batch) ==
    {[sender |-> ReadUint64FromBufferLE(batch.puts[i].Key, 8),
      receiver |-> ReadUint64FromBufferLE(batch.puts[i].Key, 16),
      seq |-> ReadUint64FromBufferLE(batch.puts[i].Key, 24)] :
        i \in {j \in 1..Len(batch.puts) :
                 ReadUint64FromBufferLE(batch.puts[j].Key, 0) = ForwarderTableID}}

RECURSIVE queueRows(_, _, _, _, _, _)
queueRows(st, kv, remotes, localShardID, remoteConsumerID, n) ==
    IF remotes = <<>> THEN st
    ELSE queueRows(QueueForRemoteSend(st, kv, Head(remotes), <<n + 1>>, localShardID,
                                      remoteConsumerID),
                   kv, Tail(remotes), localShardID, remoteConsumerID, n + 1)

\* the scheduler of localShardID processes a batch of rows that forwards one row
\* to each shard of remotes, and proposes the batch
ProcessBatch(localShardID, remotes, remoteConsumerID, ok) ==
    /\ fwdQueuedCount[localShardID] + Len(remotes) <= MaxQueued
    /\ \E st \in {queueRows([cache |-> forwardSequences,
                             batch |-> NewWriteBatch(localShardID, FALSE)],
                            fwdStore, remotes, localShardID, remoteConsumerID,
                            fwdQueuedCount[localShardID])} :
        /\ forwardSequences' = st.cache
        /\ IF ok
           THEN /\ fwdStore' = ApplyWriteBatch(fwdStore, st.batch)
                /\ fwdQueued' = fwdQueued \cup QueuedBy(st.batch)
           ELSE UNCHANGED <<fwdStore, fwdQueued>>
    /\ fwdQueuedCount' = [fwdQueuedCount EXCEPT ![localShardID] = @ + Len(remotes)]
    /\ UNCHANGED <<fwdTransfer, fwdHanded, fwdDropped>>
    /\ UNCHANGED notFwdVars

\* transferData up to its first WriteBatch
TransferScan(localShardID, del) ==
    /\ fwdTransfer[localShardID] = NoTransfer
    /\ \E kvPairs \in {LET keyStartPrefix ==
                               AppendUint64ToBufferLE(
                                   AppendUint64ToBufferLE(<<>>, ForwarderTableID),
                                   localShardID)
                       IN  LocalScan(fwdStore, keyStartPrefix, keyStartPrefix, ScanLimit)} :
        /\ kvPairs # <<>>
        /\ fwdTransfer' = [fwdTransfer EXCEPT ![localShardID] =
                              [batches |-> transferBatches(kvPairs, localShardID, <<>>, 0, TRUE),
                               del |-> del, step |-> "add"]]
    /\ UNCHANGED <<fwdStore, forwardSequences, fwdQueuedCount, fwdQueued, fwdHanded,
                   fwdDropped>>
    /\ UNCHANGED notFwdVars

TransferAddIgnoringError(localShardID, ok) ==
    LET t == fwdTransfer[localShardID] IN
    /\ t.batches # <<>>
    /\ t.step = "add"
    /\ fwdStore' = IF ok THEN ApplyWriteBatch(fwdStore, Head(t.batches).addBatch) ELSE fwdStore
    /\ fwdTransfer' = [fwdTransfer EXCEPT ![localShardID] =
                          IF t.del THEN [t EXCEPT !.step = "delete"]
                          ELSE IF Len(t.batches) = 1 THEN NoTransfer
                          ELSE [t EXCEPT !.batches = Tail(@)]]
    /\ UNCHANGED <<forwardSequences, fwdQueuedCount, fwdQueued, fwdHanded, fwdDropped>>
    /\ UNCHANGED notFwdVars

\* the WriteBatch of the add batch of the next forwardBatch
TransferAdd(localShardID, ok) ==
    LET t == fwdTransfer[localShardID] IN
    /\ t.batches # <<>>
    /\ t.step = "add"
    /\ IF ok
       THEN /\ fwdStore' = ApplyWriteBatch(fwdStore, Head(t.batches).addBatch)
            /\ fwdTransfer' = [fwdTransfer EXCEPT ![localShardID] =
                                  IF t.del THEN [t EXCEPT !.step = "delete"]
                                  ELSE IF Len(t.batches) = 1 THEN NoTransfer
                                  ELSE [t EXCEPT !.batches = Tail(@)]]
       ELSE /\ fwdTransfer' = [fwdTransfer EXCEPT ![localShardID] = NoTransfer]
            /\ UNCHANGED fwdStore
    /\ UNCHANGED <<forwardSequences, fwdQueuedCount, fwdQueued, fwdHanded, fwdDropped>>
    /\ UNCHANGED notFwdVars

\* the WriteBatch of the delete batch of the same forwardBatch
TransferDelete(localShardID, ok) ==
    LET t == fwdTransfer[localShardID] IN
    /\ t.batches # <<>>
    /\ t.step = "delete"
    /\ IF ok
       THEN /\ fwdStore' = ApplyWriteBatch(fwdStore, Head(t.batches).deleteBatch)
            /\ fwdTransfer' = [fwdTransfer EXCEPT ![localShardID] =
                                  IF Len(t.batches) = 1 THEN NoTransfer
                                  ELSE [t EXCEPT !.batches = Tail(@), !.step = "add"]]
       ELSE /\ fwdTransfer' = [fwdTransfer EXCEPT ![localShardID] = NoTransfer]
            /\ UNCHANGED fwdStore
    /\ UNCHANGED <<forwardSequences, fwdQueuedCount, fwdQueued, fwdHanded, fwdDropped>>
    /\ UNCHANGED notFwdVars

\* the downstream key under which the row handler of consumer remoteConsumerID
\* writes a row on the receiving shard
DownstreamKey(remoteConsumerID, receivingShardID, row) ==
    AppendUint64ToBufferLE(AppendUint64ToBufferLE(<<>>, remoteConsumerID),
                           receivingShardID) \o row

RECURSIVE handleRows(_, _, _, _)
handleRows(rows, batch, remoteConsumerID, receivingShardID) ==
    IF rows = <<>> THEN batch
    ELSE handleRows(Tail(rows),
                    AddPut(batch, DownstreamKey(remoteConsumerID, receivingShardID, Head(rows)),
                           Head(rows)),
                    remoteConsumerID, receivingShardID)

\* rawRowHandler.HandleRawRows: the downstream writes of the rows of every
\* consumer go into the batch of the receive run
RECURSIVE HandleRawRows(_, _, _)
HandleRawRows(remoteConsumerRows, batch, receivingShardID) ==
    IF DOMAIN remoteConsumerRows = {} THEN batch
    ELSE LET c == CHOOSE x \in DOMAIN remoteConsumerRows : TRUE
         IN  HandleRawRows([x \in DOMAIN remoteConsumerRows \ {c} |-> remoteConsumerRows[x]],
                           handleRows(remoteConsumerRows[c], batch, c, receivingShardID),
                           receivingShardID)

RecvOutcomes == {"committed", "writeFailed", "handlerError"}

\* handleReceivedRows as a whole.  outcome: the row handler returns an error, or
\* the WriteBatch of the batch fails, or it commits.  Returns the batches
\* proposed and the store after the call.
handleReceivedRows(kv, receivingShardID, outcome) ==
    LET keyStartPrefix == AppendUint64ToBufferLE(
                              AppendUint64ToBufferLE(<<>>, ReceiverTableID), receivingShardID)
        kvPairs == LocalScan(kv, keyStartPrefix, keyStartPrefix, ScanLimit)
        st == receiveLoop(kvPairs, kv, receivingShardID,
                          [receivingSequences |-> <<>>, remoteConsumerRows |-> <<>>,
                           batch |-> NewWriteBatch(receivingShardID, FALSE),
                           accepted |-> <<>>, discarded |-> {}])
        called == DOMAIN st.remoteConsumerRows # {}
        failed == called /\ outcome = "handlerError"
        handled == IF called
                   THEN HandleRawRows(st.remoteConsumerRows, st.batch, receivingShardID)
                   ELSE st.batch
        batch == updateReceivingSequences(handled, receivingShardID, st.receivingSequences,
                                          DOMAIN st.receivingSequences)
        committed == ~failed /\ outcome = "committed"
    IN  [scanned |-> [i \in 1..Len(kvPairs) |-> kvPairs[i].Key],
         called |-> called,
         accepted |-> st.accepted,
         discarded |-> st.discarded,
         proposed |-> IF failed THEN <<>> ELSE <<batch>>,
         committed |-> committed,
         store |-> IF committed THEN ApplyWriteBatch(kv, batch) ELSE kv]

\* handleReceivedRows on the scheduler of receivingShardID
HandleReceivedRows(receivingShardID, outcome) ==
    /\ \E res \in {handleReceivedRows(fwdStore, receivingShardID, outcome)} :
        /\ res.scanned # <<>>
        /\ outcome = "handlerError" => res.called
        /\ fwdStore' = res.store
        /\ fwdHanded' = IF res.committed THEN fwdHanded \o res.accepted ELSE fwdHanded
        /\ fwdDropped' = IF res.committed THEN fwdDropped \cup res.discarded ELSE fwdDropped
    /\ UNCHANGED <<forwardSequences, fwdTransfer, fwdQueuedCount, fwdQueued>>
    /\ UNCHANGED notFwdVars

\* the node restarts: the cache and the transfers in progress are lost
FwdRestart ==
    /\ forwardSequences # <<>> \/ \E sh \in FwdShards : fwdTransfer[sh] # NoTransfer
    /\ forwardSequences' = <<>>
    /\ fwdTransfer' = [sh \in FwdShards |-> NoTransfer]
    /\ UNCHANGED <<fwdStore, fwdQueuedCount, fwdQueued, fwdHanded, fwdDropped>>
    /\ UNCHANGED notFwdVars

\* the store of a node whose shards have forwarded prior[s] rows before
PriorStore(prior) ==
    LET senders == {sh \in DOMAIN prior : prior[sh] > 0}
        keyOf == [sh \in senders |-> genForwardSequenceKey(sh)]
    IN  [k \in {keyOf[sh] : sh \in senders} |->
            AppendUint64ToBufferLE(<<>>, prior[CHOOSE sh \in senders : keyOf[sh] = k] + 1)]

InitFwd ==
    /\ \E prior \in [FwdSenders -> PriorForwarded] : fwdStore = PriorStore(prior)
    /\ forwardSequences = <<>>
    /\ fwdTransfer = [sh \in FwdShards |-> NoTransfer]
    /\ fwdQueuedCount = [sh \in FwdShards |-> 0]
    /\ fwdQueued = {}
    /\ fwdHanded = <<>>
    /\ fwdDropped = {}
    /\ SMIdle
    /\ CalcIdle
    /\ FillIdle
    /\ ConsIdle
    /\ ExtIdle

RemoteLists == UNION {[1..k -> FwdShards] : k \in 1..MaxBatchRows}

NextFwd ==
    \/ \E sh \in FwdSenders, remotes \in RemoteLists, c \in RemoteConsumerIDs, ok \in BOOLEAN :
          ProcessBatch(sh, remotes, c, ok)
    \/ \E sh \in FwdSenders, del \in BOOLEAN : TransferScan(sh, del)
    \/ \E sh \in FwdSenders, ok \in BOOLEAN : TransferAdd(sh, ok)
    \/ \E sh \in FwdSenders, ok \in BOOLEAN : TransferDelete(sh, ok)
    \/ \E sh \in FwdShards, outcome \in RecvOutcomes : HandleReceivedRows(sh, outcome)
    \/ FwdRestart

SpecFwd == InitFwd /\ [][NextFwd]_vars

----------------------------------------------------------------------------
(* Properties of the forwarder and the receiver *)

HandedIDs == {RowID(fwdHanded[i].receiver, fwdHanded[i].sender, fwdHanded[i].seq) :
                 i \in DOMAIN fwdHanded}

ForwarderSeqs(batch) ==
    LET idx == {j \in 1..Len(batch.puts) :
                   ReadUint64FromBufferLE(batch.puts[j].Key, 0) = ForwarderTableID}
    IN  [j \in idx |-> ReadUint64FromBufferLE(batch.puts[j].Key, 24)]

\* the next-sequence value a batch leaves under the forwarder-sequence key
NextSeqWritten(batch, localShardID) ==
    LET idx == {j \in 1..Len(batch.puts) :
                   batch.puts[j].Key = genForwardSequenceKey(localShardID)}
    IN  ReadUint64FromBufferLE(batch.puts[CHOOSE j \in idx : \A i \in idx : i <= j].Value, 0)

\* C11: the sequences QueueForRemoteSend assigns to the rows of a batch the
\* scheduler can process are
\* strictly increasing and below the next-sequence value the same batch
\* writes; the sequence assigned next (from the cache, or from the store after
\* a restart or a failed commit) and the persisted next sequence are above the
\* sequence of every forwarder entry of the shard written by a committed batch.
C11_ForwardSequencesFresh ==
    \A sh \in FwdSenders :
        /\ \A q \in fwdQueued :
              q.sender = sh =>
                /\ q.seq < nextForwardSequence(forwardSequences, fwdStore, sh).sequence
                /\ q.seq < nextForwardSequence(<<>>, fwdStore, sh).sequence
        /\ \A remotes \in {l \in RemoteLists : fwdQueuedCount[sh] + Len(l) <= MaxQueued},
              c \in RemoteConsumerIDs :
              \A st \in {queueRows([cache |-> forwardSequences,
                                    batch |-> NewWriteBatch(sh, FALSE)],
                                   fwdStore, remotes, sh, c, fwdQueuedCount[sh])} :
                  \A seqs \in {ForwarderSeqs(st.batch)},
                     written \in {NextSeqWritten(st.batch, sh)} :
                      /\ \A i, j \in DOMAIN seqs : i < j => seqs[i] < seqs[j]
                      /\ \A i \in DOMAIN seqs : seqs[i] < written

\* after a committed batch a batch failed to commit and the node restarted:
\* the cache is empty and fewer entries are committed than rows were queued
C11_Witness ==
    \E sh \in FwdSenders :
        /\ forwardSequences = <<>>
        /\ \E q \in fwdQueued : q.sender = sh
        /\ Cardinality({q \in fwdQueued : q.sender = sh}) < fwdQueuedCount[sh]

MaxAccepted(accepted, s) ==
    LET seqs == {accepted[i].seq : i \in {j \in DOMAIN accepted : accepted[j].sender = s}}
    IN  CHOOSE m \in seqs : \A x \in seqs : x <= m

\* the batch of a receive run holds the handler's write of every accepted row,
\* one last-received update for each sender with accepted rows and for no
\* other, and the deletes of all scanned entries
OneBatchHoldsAll(rec, batch) ==
    /\ batch.deletes = rec.scanned
    /\ \A i \in DOMAIN rec.accepted :
          LET a == rec.accepted[i]
          IN  /\ \E j \in DOMAIN batch.puts :
                     SubSeq(batch.puts[j].Key, 1, 16)
                         = DownstreamKey(a.consumer, a.receiver, <<>>)
              /\ \E x \in DOMAIN rec.scanned :
                     /\ ReadUint64FromBufferLE(rec.scanned[x], 16) = a.sender
                     /\ ReadUint64FromBufferLE(rec.scanned[x], 24) = a.seq
    /\ \A s \in FwdSenders, r \in FwdShards :
          LET n == Cardinality({j \in DOMAIN batch.puts :
                                   batch.puts[j].Key = genReceivingSequenceKey(r, s)})
              has == \E i \in DOMAIN rec.accepted :
                        rec.accepted[i].sender = s /\ rec.accepted[i].receiver = r
          IN  IF has
              THEN /\ n = 1
                   /\ \E j \in DOMAIN batch.puts :
                         /\ batch.puts[j].Key = genReceivingSequenceKey(r, s)
                         /\ ReadUint64FromBufferLE(batch.puts[j].Value, 0)
                                = MaxAccepted(rec.accepted, s)
              ELSE n = 0
    /\ Len(batch.puts) = Len(rec.accepted)
                           + Cardinality({rec.accepted[i].sender : i \in DOMAIN rec.accepted})

\* key is an entry of the receiver table of receivingShardID
IsReceiverEntry(key, receivingShardID) ==
    IsPrefix(AppendUint64ToBufferLE(AppendUint64ToBufferLE(<<>>, ReceiverTableID),
                                    receivingShardID), key)

ReceivePending(sh) ==
    LET keyStartPrefix == AppendUint64ToBufferLE(
                              AppendUint64ToBufferLE(<<>>, ReceiverTableID), sh)
    IN  LocalScan(fwdStore, keyStartPrefix, keyStartPrefix, ScanLimit) # <<>>

\* entries wait in the forwarder table of shard sh and no transfer of sh is
\* under way: a transferData run of sh can start exactly in these states
TransferPending(sh) ==
    LET keyStartPrefix == AppendUint64ToBufferLE(
                              AppendUint64ToBufferLE(<<>>, ForwarderTableID), sh)
    IN  /\ fwdTransfer[sh] = NoTransfer
        /\ LocalScan(fwdStore, keyStartPrefix, keyStartPrefix, ScanLimit) # <<>>

\* Proposals eventually succeed and every notification leads to a transfer and
\* a receive run: an add batch for a remote shard or a delete batch that is
\* proposed again and again eventually commits; a transfer starts if entries wait in the forwarder
\* table for ever, and a receive run commits if entries wait in the receiver
\* table for ever (weak fairness, with the enabling conditions written out).
FairFwd ==
    /\ \A sh \in FwdSenders :
          /\ \A r \in FwdShards :
                SF_vars(/\ fwdTransfer[sh].batches # <<>>
                        /\ Head(fwdTransfer[sh].batches).addBatch.ShardID = r
                        /\ TransferAdd(sh, TRUE))
          /\ SF_vars(TransferDelete(sh, TRUE))
          /\ \/ []<>(~TransferPending(sh))
             \/ []<><<\E del \in BOOLEAN : TransferScan(sh, del)>>_vars
    /\ \A sh \in FwdShards :
          \/ []<>(~ReceivePending(sh))
          \/ []<><<HandleReceivedRows(sh, "committed")>>_vars

SpecFwdFair == InitFwd /\ [][NextFwd]_vars /\ FairFwd

\* the forwarder entries the schedulers can write
PossibleEntries ==
    {[sender |-> s, receiver |-> r, seq |-> p + k] :
        s \in FwdSenders, r \in FwdShards, p \in PriorForwarded, k \in 1..MaxQueued}

IsForwarderEntry(key) == ReadUint64FromBufferLE(key, 0) = ForwarderTableID

\* the key under which transferData writes the receiver copy of a forwarder entry
ReceiverCopyOf(key) ==
    AppendUint64ToBufferLE(
        AppendUint64ToBufferLE(AppendUint64ToBufferLE(<<>>, ReceiverTableID),
                               ReadUint64FromBufferLE(key, 16)),
        ReadUint64FromBufferLE(key, 8)) \o SubSeq(key, Len(key) - 16 + 1, Len(key))

\* the receiver copy of a forwarder entry has been committed: it is in the
\* receiver table, or a committed receive batch has taken it from there
ReceiverCopyCommitted(key) ==
    \/ ReceiverCopyOf(key) \in DOMAIN fwdStore
    \/ RowID(ReadUint64FromBufferLE(key, 16), ReadUint64FromBufferLE(key, 8),
             ReadUint64FromBufferLE(key, 24)) \in HandedIDs \cup fwdDropped

----------------------------------------------------------------------------
(* Properties of the shard state machine *)

IsWrite(c) ==
    c.cmd \in {shardStateMachineCommandWrite, shardStateMachineCommandForwardWrite}

Covers(c, k) ==
    /\ c.cmd = shardStateMachineCommandDeleteRangePrefix
    /\ ~BytesLess(k, c.startPrefix)
    /\ BytesLess(k, c.endPrefix)

LastPutOf(c, k) ==
    LET idx == {i \in 1..Len(c.puts) : c.puts[i].Key = k}
    IN  IF idx = {} THEN 0 ELSE CHOOSE i \in idx : \A j \in idx : j <= i

\* the value of key k once the entries 1..i of the log have been applied once
\* each, in log order: <<TRUE, v>>, or <<FALSE, <<>> >> when k is absent
RECURSIVE ValueAfter(_, _)
ValueAfter(k, i) ==
    IF i = 0 THEN <<FALSE, <<>> >>
    ELSE LET c == raftLog[i]
         IN  IF IsWrite(c) /\ k \in Range(c.deletes) THEN <<FALSE, <<>> >>
             ELSE IF IsWrite(c) /\ LastPutOf(c, k) # 0
             THEN <<TRUE, c.puts[LastPutOf(c, k)].Value>>
             ELSE IF Covers(c, k) THEN <<FALSE, <<>> >>
             ELSE ValueAfter(k, i - 1)

UserKeys == {KeyA, KeyB, KeyOther}

FoldLog(i) ==
    [k \in {x \in UserKeys : ValueAfter(x, i)[1]} |-> ValueAfter(k, i)[2]]

\* the store without the reserved key of the last applied index
UserData(kv) ==
    [k \in DOMAIN kv \ {EncodeTableKeyPrefix(LastLogIndexReceivedTableID, smShardID)}
        |-> kv[k]]

\* C4: the KV state of a running replica is the fold, in log order, of the
\* puts, deletes and range deletes of the entries it has applied, each once,
\* however the entries were grouped into Update calls and whatever was
\* replayed after a crash.
C4_KVIsFoldOfLog ==
    \A n \in Nodes : smUp[n] => UserData(pebble[n]) = FoldLog(smApplied[n])

\* a replica that lost applied entries in a crash and replayed them holds a
\* key that was put after a range delete covering it
C4_Witness ==
    /\ smUp[KVNode]
    /\ smReplay[KVNode] = "replayed"
    /\ smApplied[KVNode] = Len(raftLog)
    /\ \E i, j \in 1..Len(raftLog) :
          /\ i < j
          /\ Covers(raftLog[i], KeyA)
          /\ IsWrite(raftLog[j]) /\ LastPutOf(raftLog[j], KeyA) # 0
          /\ KeyA \in DOMAIN pebble[KVNode]

\* C5: the persisted last applied index always goes with the data: the store
\* (also the part of it that is on disk, and the store of a crashed node)
\* holds exactly the effects of the entries up to the persisted index, and
\* for a running replica Open returns the index of the last entry applied.
C5_IndexMatchesData ==
    \A n \in Nodes :
        /\ UserData(pebble[n]) = FoldLog(loadLastProcessedRaftIndex(pebble[n], smShardID))
        /\ UserData(durable[n]) = FoldLog(loadLastProcessedRaftIndex(durable[n], smShardID))
        /\ smUp[n] => Open(n) = smApplied[n]

\* a crashed node that lost some but not all of its applied entries
C5_Witness ==
    /\ ~smUp[KVNode]
    /\ smReplay[KVNode] = "lost"
    /\ Open(KVNode) >= 1
    /\ DOMAIN UserData(pebble[KVNode]) # {}

\* C7 as claimed: running replicas that have applied the same entries hold
\* the same replica set, and no two of them are processor.
C7_ReplicasAgree ==
    \A a, b \in Nodes :
        (smUp[a] /\ smUp[b] /\ smApplied[a] = smApplied[b] /\ a # b) =>
            /\ smNodeIDs[a] = smNodeIDs[b]
            /\ ~(smProcessor[a] /\ smProcessor[b])

HasForwardWrite(first, last) ==
    \E i \in first..last : raftLog[i].cmd = shardStateMachineCommandForwardWrite

\* C8: an Update call notifies the shard listener once if the call held a
\* FORWARD_WRITE and the replica is the processor, and not at all otherwise;
\* when the listener is called the batch of the call is already in the store.
C8_NotifyOncePerForwardBatch ==
    \A n \in Nodes :
        LET c == lastCall[n]
        IN  (c.index > 0 /\ ~c.panicked) =>
                /\ c.notified =
                     IF HasForwardWrite(c.first, c.index) /\ smProcessor[n] THEN 1 ELSE 0
                /\ c.notified > 0 => c.kvIndex = c.index

\* a processor was notified by a call of two entries
C8_Witness ==
    \E n \in MemberNodes :
        /\ lastCall[n].notified = 1
        /\ lastCall[n].first < lastCall[n].index
        /\ smProcessor[n]

ForeignKeyIn(c) ==
    /\ IsWrite(c)
    /\ \E k \in {c.puts[i].Key : i \in 1..Len(c.puts)} \cup Range(c.deletes) :
          ReadUint64FromBufferBE(k, 0) # smShardID

----------------------------------------------------------------------------
(* TableExecutor: HandleRows, captureChanges and FillTo.  A row is          *)
(* [pk, val]; val is unique, pk is the primary key.                        *)

lockAndLoadMaxRows == 10

MaxBatches == 3                         \* calls of HandleRows
BatchLens == {1, lockAndLoadMaxRows}    \* rowsBatch.Len() of a call
FillShards == {DataShardIDBase, DataShardIDBase + 1}

Row(pk, val) == [pk |-> pk, val |-> val]

MapPut(m, k, v) == [x \in DOMAIN m \cup {k} |-> IF x = k THEN v ELSE m[x]]

RECURSIVE MapPutAll(_, _)
MapPutAll(m, puts) ==
    IF puts = <<>> THEN m ELSE MapPutAll(MapPut(m, Head(puts).Key, Head(puts).Value), Tail(puts))

RECURSIVE SumOver(_, _)
SumOver(f, S) ==
    IF S = {} THEN 0
    ELSE LET x == CHOOSE y \in S : TRUE IN f[x] + SumOver(f, S \ {x})

\* an entry of a rows batch: previous and current row, <<>> for nil
RowsEntry(prevRow, currentRow) == [prev |-> prevRow, curr |-> currentRow]

NoWrites == [entries |-> <<>>, puts |-> <<>>, deletes |-> <<>>]

\* the loop of HandleRows over the entries of rowsBatch: st.entries are the
\* (previous row, current row) pairs of the outgoing batch, st.puts and
\* st.deletes what was added to ctx.WriteBatch
RECURSIVE handleRowsLoop(_, _, _, _)
handleRowsLoop(rowsBatch, kv, shardID, st) ==
    IF rowsBatch = <<>> THEN st
    ELSE LET prevRow == Head(rowsBatch).prev
             currentRow == Head(rowsBatch).curr
         IN  IF currentRow # <<>>
             THEN LET keyBuff == <<shardID, currentRow.pk>>
                      v == LocalGet(kv, keyBuff)
                  IN  handleRowsLoop(Tail(rowsBatch), kv, shardID,
                          [st EXCEPT !.entries = Append(@, RowsEntry(v, currentRow)),
                                     !.puts = Append(@, KVPair(keyBuff, currentRow))])
             ELSE LET keyBuff == <<shardID, prevRow.pk>>
                  IN  handleRowsLoop(Tail(rowsBatch), kv, shardID,
                          [st EXCEPT !.entries = Append(@, RowsEntry(prevRow, <<>>)),
                                     !.deletes = Append(@, keyBuff)])

\* the rows a consumer receives as current rows
CurrentRows(entries) == {entries[i].curr.val : i \in DOMAIN entries}

\* captureChanges: the fill table and lastSequences after the call
captureChanges(ftd, ls, entries, shardID) ==
    LET nextSeq == IF shardID \in DOMAIN ls THEN ls[shardID] + 1 ELSE 0
        numRows == Len(entries)
    IN  [fillTableData |->
            [k \in DOMAIN ftd \cup {<<shardID, nextSeq + i - 1>> : i \in 1..numRows} |->
                IF k[1] = shardID /\ k[2] >= nextSeq /\ k[2] < nextSeq + numRows
                THEN entries[k[2] - nextSeq + 1].curr ELSE ftd[k]],
         lastSequences |-> MapPut(ls, shardID, nextSeq + numRows - 1)]

\* handledBefore: the rows HandleRows had handled when the snapshot was taken
\* (-1 before that)
NoLocals == [snapshot |-> <<>>, snapshotShards |-> {}, startSeqs |-> <<>>,
             endSequences |-> <<>>, rowsToFill |-> 0, lockAndLoad |-> FALSE,
             handledBefore |-> -1]

\* HandleRows of the table executor on the scheduler of shardID, for a batch
\* of n rows with the primary keys 1..n
HandleRows(shardID, n) ==
    /\ lock = "free"
    /\ proposed[shardID] = <<>>
    /\ handledCount.batches < MaxBatches
    /\ \E st \in {handleRowsLoop([i \in 1..n |-> RowsEntry(<<>>, Row(i, handledCount.rows + i))],
                                 tableData, shardID, NoWrites)} :
        /\ uncommittedBatches' = uncommittedBatches \cup {shardID}
        /\ proposed' = [proposed EXCEPT ![shardID] = st.puts]
        /\ peRows' = IF "pe" \in consumingNodes
                     THEN peRows (+) SetToBag(CurrentRows(st.entries)) ELSE peRows
        /\ IF filling /\ Len(st.entries) # 0
           THEN \E c \in {captureChanges(fillTableData, lastSequences, st.entries, shardID)} :
                   /\ fillTableData' = c.fillTableData
                   /\ lastSequences' = c.lastSequences
           ELSE UNCHANGED <<fillTableData, lastSequences>>
        /\ fillExpected' = IF filling \/ "pe" \in consumingNodes
                           THEN fillExpected \cup CurrentRows(st.entries) ELSE fillExpected
    /\ handledCount' = [batches |-> handledCount.batches + 1, rows |-> handledCount.rows + n]
    /\ UNCHANGED <<lock, filling, consumingNodes, tableData, fillPC, fillLocals>>
    /\ UNCHANGED <<readLocks, proposedLocked>>
    /\ UNCHANGED notFillVars

\* HandleRows returns an error of EncodeKeyCols, LocalGet, DecodeRow or
\* EncodeRow from inside its loop: the batch is marked uncommitted and the
\* function returns without t.lock.RUnlock()
HandleRowsError(shardID) ==
    /\ lock = "free"
    /\ proposed[shardID] = <<>>
    /\ handledCount.batches < MaxBatches
    /\ readLocks' = readLocks + 1
    /\ uncommittedBatches' = uncommittedBatches \cup {shardID}
    /\ handledCount' = [handledCount EXCEPT !.batches = @ + 1]
    /\ UNCHANGED <<lock, filling, lastSequences, consumingNodes, tableData, fillTableData,
                   proposed, fillPC, fillLocals, peRows, fillExpected, proposedLocked>>
    /\ UNCHANGED notFillVars

\* the proposal of the batch of shardID commits (and its committed callback
\* runs), or fails
CommitBatch(shardID, ok) ==
    /\ proposed[shardID] # <<>>
    /\ proposed' = [proposed EXCEPT ![shardID] = <<>>]
    /\ IF ok
       THEN /\ tableData' = MapPutAll(tableData, proposed[shardID])
            /\ uncommittedBatches' = uncommittedBatches \ {shardID}
       ELSE UNCHANGED <<tableData, uncommittedBatches>>
    /\ UNCHANGED <<lock, filling, lastSequences, consumingNodes, fillTableData, fillPC,
                   fillLocals, peRows, fillExpected, handledCount>>
    /\ UNCHANGED <<readLocks, proposedLocked>>
    /\ UNCHANGED notFillVars

\* FillTo up to t.lock.Lock()
FillStart ==
    /\ fillPC = "idle"
    /\ fillPC' = "lock"
    /\ UNCHANGED <<lock, filling, lastSequences, uncommittedBatches, consumingNodes, tableData,
                   fillTableData, proposed, fillLocals, peRows, fillExpected, handledCount>>
    /\ UNCHANGED <<readLocks, proposedLocked>>
    /\ UNCHANGED notFillVars

FillLock ==
    /\ fillPC = "lock"
    /\ lock = "free"
    /\ readLocks = 0
    /\ lock' = "FillTo"
    /\ fillPC' = "wait"
    /\ UNCHANGED <<filling, lastSequences, uncommittedBatches, consumingNodes, tableData,
                   fillTableData, proposed, fillLocals, peRows, fillExpected, handledCount>>
    /\ UNCHANGED <<readLocks, proposedLocked>>
    /\ UNCHANGED notFillVars

\* FillTo without waitForNoUncommittedBatches
FillSnapshotWithoutWaiting ==
    /\ fillPC = "wait"
    /\ filling' = TRUE
    /\ fillLocals' = [fillLocals EXCEPT !.snapshot = tableData, !.snapshotShards = FillShards,
                                        !.handledBefore = handledCount.rows]
    /\ fillExpected' = {tableData[k].val : k \in DOMAIN tableData}
    /\ lock' = "free"
    /\ fillPC' = "replaySnapshot"
    /\ UNCHANGED <<lastSequences, uncommittedBatches, consumingNodes, tableData,
                   fillTableData, proposed, peRows, handledCount>>
    /\ UNCHANGED <<readLocks, proposedLocked>>
    /\ UNCHANGED notFillVars

\* waitForNoUncommittedBatches returns nil; the snapshot is taken and the lock released
FillSnapshot ==
    /\ fillPC = "wait"
    /\ uncommittedBatches = {}
    /\ filling' = TRUE
    /\ fillLocals' = [fillLocals EXCEPT !.snapshot = tableData, !.snapshotShards = FillShards,
                                        !.handledBefore = handledCount.rows]
    /\ fillExpected' = {tableData[k].val : k \in DOMAIN tableData}
    /\ lock' = "free"
    /\ fillPC' = "replaySnapshot"
    /\ UNCHANGED <<lastSequences, uncommittedBatches, consumingNodes, tableData,
                   fillTableData, proposed, peRows, handledCount>>
    /\ UNCHANGED <<readLocks, proposedLocked>>
    /\ UNCHANGED notFillVars

\* startReplayFromSnapshot returns an error: FillTo unlocks and returns it
FillSnapshotError ==
    /\ fillPC = "wait"
    /\ uncommittedBatches = {}
    /\ filling' = TRUE
    /\ lock' = "free"
    /\ fillPC' = "failed"
    /\ UNCHANGED <<lastSequences, uncommittedBatches, consumingNodes, tableData,
                   fillTableData, proposed, fillLocals, peRows, fillExpected, handledCount>>
    /\ UNCHANGED <<readLocks, proposedLocked>>
    /\ UNCHANGED notFillVars

\* waitForNoUncommittedBatches times out: FillTo returns the error
FillWaitTimeout ==
    /\ fillPC = "wait"
    /\ uncommittedBatches # {}
    /\ \A sh \in FillShards : proposed[sh] = <<>>
    /\ fillPC' = "failed"
    /\ UNCHANGED <<lock, filling, lastSequences, uncommittedBatches, consumingNodes, tableData,
                   fillTableData, proposed, fillLocals, peRows, fillExpected, handledCount>>
    /\ UNCHANGED <<readLocks, proposedLocked>>
    /\ UNCHANGED notFillVars

\* performReplayFromSnapshot: the goroutine of one shard
ReplaySnapshotShard(theShardID) ==
    /\ fillPC = "replaySnapshot"
    /\ theShardID \in fillLocals.snapshotShards
    /\ LET kvp == {k \in DOMAIN fillLocals.snapshot : k[1] = theShardID}
       IN  peRows' = IF Cardinality(kvp) = 0 THEN peRows
                     ELSE peRows (+) SetToBag({fillLocals.snapshot[k].val : k \in kvp})
    /\ fillLocals' = [fillLocals EXCEPT !.snapshotShards = @ \ {theShardID}]
    /\ fillPC' = IF fillLocals.snapshotShards = {theShardID} THEN "catchUp" ELSE fillPC
    /\ UNCHANGED <<lock, filling, lastSequences, uncommittedBatches, consumingNodes, tableData,
                   fillTableData, proposed, fillExpected, handledCount>>
    /\ UNCHANGED <<readLocks, proposedLocked>>
    /\ UNCHANGED notFillVars

\* one iteration of the catch-up loop, up to replayChanges
CatchUpLock ==
    /\ fillPC = "catchUp"
    /\ lock = "free"
    /\ readLocks = 0
    /\ LET startSeqs == fillLocals.startSeqs
           prev == [k \in DOMAIN lastSequences |->
                       IF k \in DOMAIN startSeqs THEN startSeqs[k] ELSE -1]
           newer == {k \in DOMAIN lastSequences : lastSequences[k] > prev[k]}
           rowsToFill == SumOver([k \in newer |-> lastSequences[k] - prev[k]], newer)
           lockAndLoad == rowsToFill < lockAndLoadMaxRows
       IN  /\ fillLocals' = [fillLocals EXCEPT
                   !.endSequences = [k \in newer |-> lastSequences[k] + 1],
                   !.rowsToFill = rowsToFill,
                   !.startSeqs = [k \in DOMAIN startSeqs \cup {x \in newer : prev[x] = -1} |->
                                     IF k \in newer /\ prev[k] = -1 THEN 0 ELSE startSeqs[k]],
                   !.lockAndLoad = lockAndLoad]
           /\ lock' = IF lockAndLoad THEN "FillTo" ELSE "free"
    /\ fillPC' = "replay"
    /\ UNCHANGED <<filling, lastSequences, uncommittedBatches, consumingNodes, tableData,
                   fillTableData, proposed, peRows, fillExpected, handledCount>>
    /\ UNCHANGED <<readLocks, proposedLocked>>
    /\ UNCHANGED notFillVars

\* replayChanges: the keys of the fill table each shard scans, and whether
\* every shard found the number of rows it expects
replayChanges(startSeqs, endSeqs, ftd) ==
    LET kvp == [shardID \in DOMAIN endSeqs |->
                   {k \in DOMAIN ftd : /\ k[1] = shardID
                                       /\ k[2] >= startSeqs[shardID]
                                       /\ k[2] < endSeqs[shardID]}]
    IN  [ok |-> \A shardID \in DOMAIN endSeqs :
                   Cardinality(kvp[shardID]) = endSeqs[shardID] - startSeqs[shardID],
         keys |-> UNION {kvp[shardID] : shardID \in DOMAIN endSeqs}]

\* the rest of the iteration: replayChanges and the update of startSeqs
CatchUpReplay ==
    /\ fillPC = "replay"
    /\ \E r \in {replayChanges(fillLocals.startSeqs, fillLocals.endSequences, fillTableData)} :
        IF fillLocals.rowsToFill # 0 /\ ~r.ok
        THEN /\ fillPC' = "failed"
             /\ lock' = IF fillLocals.lockAndLoad THEN "free" ELSE lock
             /\ UNCHANGED <<peRows, fillLocals, proposedLocked>>
        ELSE /\ peRows' = IF fillLocals.rowsToFill # 0
                          THEN peRows (+) SetToBag({fillTableData[k].val : k \in r.keys})
                          ELSE peRows
             /\ fillLocals' = [fillLocals EXCEPT
                    !.startSeqs = [k \in DOMAIN @ \cup DOMAIN fillLocals.endSequences |->
                                      IF k \in DOMAIN fillLocals.endSequences
                                      THEN fillLocals.endSequences[k] ELSE @[k]]]
             /\ fillPC' = IF fillLocals.lockAndLoad THEN "finish" ELSE "catchUp"
             /\ proposedLocked' = (proposedLocked \/ (fillLocals.rowsToFill # 0 /\ lock = "FillTo"))
             /\ UNCHANGED lock
    /\ UNCHANGED <<filling, lastSequences, uncommittedBatches, consumingNodes, tableData,
                   fillTableData, proposed, fillExpected, handledCount>>
    /\ UNCHANGED readLocks
    /\ UNCHANGED notFillVars

\* after the loop: pe becomes a consumer and the lock is released
FillFinish ==
    /\ fillPC = "finish"
    /\ filling' = FALSE
    /\ lastSequences' = <<>>
    /\ consumingNodes' = consumingNodes \cup {"pe"}
    /\ lock' = "free"
    /\ fillPC' = "cleanup"
    /\ UNCHANGED <<uncommittedBatches, tableData, fillTableData, proposed, fillLocals, peRows,
                   fillExpected, handledCount>>
    /\ UNCHANGED <<readLocks, proposedLocked>>
    /\ UNCHANGED notFillVars

\* the fill table is deleted and FillTo returns nil, or deleting it or
\* RemovePrefixesToDelete fails and FillTo returns the error
FillCleanup(ok) ==
    /\ fillPC = "cleanup"
    /\ fillTableData' = IF ok THEN <<>> ELSE fillTableData
    /\ fillPC' = IF ok THEN "done" ELSE "failed"
    /\ UNCHANGED <<lock, filling, lastSequences, uncommittedBatches, consumingNodes, tableData,
                   proposed, fillLocals, peRows, fillExpected, handledCount>>
    /\ UNCHANGED <<readLocks, proposedLocked>>
    /\ UNCHANGED notFillVars

InitFill ==
    /\ lock = "free"
    /\ filling = FALSE
    /\ lastSequences = <<>>
    /\ uncommittedBatches = {}
    /\ consumingNodes = {}
    /\ tableData = <<>>
    /\ fillTableData = <<>>
    /\ proposed = [sh \in FillShards |-> <<>>]
    /\ fillPC = "idle"
    /\ fillLocals = NoLocals
    /\ peRows = EmptyBag
    /\ fillExpected = {}
    /\ handledCount = [batches |-> 0, rows |-> 0]
    /\ readLocks = 0
    /\ proposedLocked = FALSE
    /\ SMIdle
    /\ CalcIdle
    /\ FwdIdle
    /\ ConsIdle
    /\ ExtIdle

NextFill ==
    \/ \E sh \in FillShards, n \in BatchLens : HandleRows(sh, n)
    \/ \E sh \in FillShards : HandleRowsError(sh)
    \/ \E sh \in FillShards, ok \in BOOLEAN : CommitBatch(sh, ok)
    \/ FillStart
    \/ FillLock
    \/ FillSnapshot
    \/ FillSnapshotError
    \/ FillWaitTimeout
    \/ \E sh \in FillShards : ReplaySnapshotShard(sh)
    \/ CatchUpLock
    \/ CatchUpReplay
    \/ FillFinish
    \/ \E ok \in BOOLEAN : FillCleanup(ok)

SpecFill == InitFill /\ [][NextFill]_vars

\* FillTo runs in a goroutine of its own: each of its steps is taken when it
\* stays possible, and t.lock.Lock() returns when the lock stays free
SpecFillFair ==
    /\ SpecFill
    /\ WF_vars(CatchUpLock)
    /\ WF_vars(CatchUpReplay)
    /\ WF_vars(FillFinish)
    /\ WF_vars(\E ok \in BOOLEAN : FillCleanup(ok))

\* C3: when FillTo has returned successfully, pe has received each row of the
\* snapshot taken at fill start and each row handled by HandleRows since then
\* exactly once, and no other row.
C3_FillEquivalence ==
    fillPC = "done" =>
        \A v \in 1..handledCount.rows :
            CopiesIn(v, peRows) = IF v \in fillExpected THEN 1 ELSE 0

\* C17: when HandleRows has returned, on whatever path, it holds no read lock
\* of the table executor, so that FillTo can take the write lock.
C17_ReadLockReleased == readLocks = 0

\* C18: when FillTo has returned, with or without an error, the write lock of
\* the table executor is free.
C18_WriteLockReleased == fillPC \in {"cleanup", "done", "failed"} => lock # "FillTo"

\* C19: no WriteBatch is proposed while the lock of the table executor is
\* held; the replay of the last catch-up iteration proposes none under the
\* write lock.
C19_NoProposalUnderLock == ~proposedLocked

\* C29: when the catch-up loop of FillTo exits, the ranges replayed for every
\* shard, which begin at 0 and each begin where the one before ended, reach
\* lastSequences[shard] + 1: every row captured in the fill table has been
\* replayed, also when exactly one row was captured between two iterations.
C29_CatchUpReachesLast ==
    fillPC = "finish" =>
        \A k \in DOMAIN lastSequences :
            /\ k \in DOMAIN fillLocals.startSeqs
            /\ fillLocals.startSeqs[k] = lastSequences[k] + 1

\* the values of the rows of a store
ValsOf(kv) == {kv[k].val : k \in DOMAIN kv}

\* the rows HandleRows handled after the snapshot of the fill was taken
HandledAfterSnapshot == (fillLocals.handledBefore + 1)..handledCount.rows

\* C31: the snapshot of FillTo is taken with filling set in one critical
\* section, when no batch is uncommitted: every row handled before the
\* snapshot that is written to the table is in the snapshot, none of them is
\* in flight or in the fill table, and every row handled after the snapshot
\* is in the fill table and not in the snapshot.
C31_SnapshotSeparatesRows ==
    fillLocals.handledBefore >= 0 =>
        /\ \A k \in {j \in DOMAIN tableData : tableData[j].val <= fillLocals.handledBefore} :
               k \in DOMAIN fillLocals.snapshot /\ fillLocals.snapshot[k] = tableData[k]
        /\ \A sh \in FillShards : \A i \in DOMAIN proposed[sh] :
               proposed[sh][i].Value.val > fillLocals.handledBefore
        /\ ValsOf(fillLocals.snapshot) \subseteq 1..fillLocals.handledBefore
        /\ ValsOf(fillTableData) \cap (1..fillLocals.handledBefore) = {}
        /\ fillPC \in {"replaySnapshot", "catchUp"} =>
               HandledAfterSnapshot \subseteq ValsOf(fillTableData)

C31_Witness ==
    /\ fillLocals.handledBefore >= 1
    /\ fillLocals.snapshot # <<>>
    /\ HandledAfterSnapshot # {}
    /\ HandledAfterSnapshot \subseteq ValsOf(fillTableData)
    /\ tableData # fillLocals.snapshot

\* C34: the catch-up loop of FillTo terminates: with HandleRows handling a
\* bounded number of rows, an iteration with fewer than lockAndLoadMaxRows
\* rows to replay is reached and FillTo returns.
C34_CatchUpTerminates == (fillPC = "catchUp") ~> (fillPC \in {"done", "failed"})

\* the fill sequences captured for a shard
CapturedSeqs(shardID) == {k[2] : k \in {j \in DOMAIN fillTableData : j[1] = shardID}}

\* C35: whenever a fill can start (no fill has run yet, or FillTo has
\* returned, with or without an error) the capture sequence counters are
\* empty, and the sequences captured for a shard during a fill are 0, 1, 2, ...
\* up to its counter, without gaps.
C35_SequencesRestartAtZero ==
    /\ fillPC \in {"idle", "done", "failed"} => lastSequences = <<>>
    /\ fillPC \in {"replaySnapshot", "catchUp", "replay", "finish"} =>
          \A sh \in FillShards :
              CapturedSeqs(sh) = IF sh \in DOMAIN lastSequences
                                 THEN 0..lastSequences[sh] ELSE {}

\* C40: uncommittedBatches holds a shard exactly while a batch that
\* HandleRows handled for the shard is in flight; when every handled batch
\* has committed or failed to commit it is empty.
C40_UncommittedIffInFlight ==
    \A sh \in FillShards : sh \in uncommittedBatches <=> proposed[sh] # <<>>

\* C20: when FillTo has returned an error, pe is not a consuming node of the
\* table executor.
C20_NotInstalledOnFailure == fillPC = "failed" => "pe" \notin consumingNodes

----------------------------------------------------------------------------
(* MessageConsumer: pollLoop and getBatch *)

MaxOffset == 1                          \* highest offset of a message
MaxFeed == 2                            \* messages the broker has for one getBatch call

Partitions == {0, 1}
Offsets == 0..MaxOffset
maxMessages == 1

\* what GetMessage can return: a message of a partition, or an error
Message(partID, offset) == [kind |-> "msg", PartitionID |-> partID, Offset |-> offset]
GetMessageError == [kind |-> "err", PartitionID |-> 0, Offset |-> 0]
FeedItems == {Message(p, o) : p \in Partitions, o \in Offsets} \cup {GetMessageError}

\* what GetMessage returns to one getBatch call, until it returns nil or the
\* poll timeout has run out
Feeds == UNION {[1..k -> FeedItems] : k \in 0..MaxFeed}

\* the startup offsets: for each partition none, or one more than the last offset seen
StartupOffsets == UNION {[P -> 0..MaxOffset] : P \in SUBSET Partitions}

isDuplicateStrict(offset, lastOffset) == offset < lastOffset

\* getBatch: the message has been seen before
isDuplicate(offset, lastOffset) == offset <= lastOffset

\* getBatch: the last offset seen of the partition
lastOffsetOf(startup, partID) ==
    IF partID \in DOMAIN startup THEN startup[partID] - 1 ELSE -1

\* the loop of getBatch; feed is what GetMessage returns from now on
RECURSIVE getBatchLoop(_, _, _, _, _, _)
getBatchLoop(startup, feed, msgs, offsets, got, maxRecords) ==
    IF ~(Len(msgs) <= maxRecords) \/ feed = <<>>
    THEN [msgs |-> msgs, offsetsToCommit |-> offsets, err |-> FALSE, fetched |-> got]
    ELSE LET msg == Head(feed)
             partID == msg.PartitionID
             lastOffset == lastOffsetOf(startup, partID)
             offsets1 == MapPut(offsets, partID, msg.Offset + 1)
         IN  IF msg.kind = "err"
             THEN [msgs |-> <<>>, offsetsToCommit |-> <<>>, err |-> TRUE, fetched |-> got]
             ELSE IF isDuplicate(msg.Offset, lastOffset)
             THEN [msgs |-> msgs, offsetsToCommit |-> offsets1, err |-> FALSE,
                   fetched |-> Append(got, msg)]
             ELSE getBatchLoop(startup, Tail(feed), Append(msgs, msg), offsets1,
                               Append(got, msg), maxRecords)

getBatch(startup, feed, maxRecords) ==
    getBatchLoop(startup, feed, <<>>, <<>>, <<>>, maxRecords)

afterHandleMessagesAlways(ok) == "commit"

\* pollLoop after handleMessages: on an error consumerError and return
afterHandleMessages(ok) == IF ok THEN "commit" ELSE "stopped"

\* pollLoop: one getBatch call and what follows up to handleMessages
Poll(feed) ==
    /\ pollPC = "poll"
    /\ \E b \in {getBatch(startupCommittedOffsets, feed, maxMessages)} :
        /\ fetched' = b.fetched
        /\ messages' = b.msgs
        /\ offsetsToCommit' = b.offsetsToCommit
        /\ pollPC' = IF b.err THEN "stopped"
                     ELSE IF Len(b.msgs) # 0 THEN "handle"
                     ELSE IF DOMAIN b.offsetsToCommit # {} THEN "commit"
                     ELSE "poll"
    /\ handleResult' = "none"
    /\ UNCHANGED <<startupCommittedOffsets, passed, commitCalls>>
    /\ UNCHANGED notConsVars

\* pollLoop: source.handleMessages returns
HandleMessages(ok) ==
    /\ pollPC = "handle"
    /\ passed' = Range(messages)
    /\ handleResult' = IF ok THEN "ok" ELSE "failed"
    /\ \E pc \in {afterHandleMessages(ok)} :
          pollPC' = IF pc = "commit" /\ DOMAIN offsetsToCommit = {} THEN "poll" ELSE pc
    /\ UNCHANGED <<startupCommittedOffsets, messages, offsetsToCommit, fetched, commitCalls>>
    /\ UNCHANGED notConsVars

\* pollLoop: msgProvider.CommitOffsets returns
CommitOffsets(ok) ==
    /\ pollPC = "commit"
    /\ commitCalls' = commitCalls \cup {[withMessages |-> messages # <<>>,
                                         handleResult |-> handleResult]}
    /\ pollPC' = IF ok THEN "poll" ELSE "stopped"
    /\ UNCHANGED <<startupCommittedOffsets, messages, offsetsToCommit, fetched, handleResult,
                   passed>>
    /\ UNCHANGED notConsVars

\* Stop: running becomes false and the loop ends before its next iteration
StopConsumer ==
    /\ pollPC = "poll"
    /\ pollPC' = "stopped"
    /\ UNCHANGED <<startupCommittedOffsets, messages, offsetsToCommit, fetched, handleResult,
                   passed, commitCalls>>
    /\ UNCHANGED notConsVars

\* NewMessageConsumer and start
InitCons ==
    /\ startupCommittedOffsets \in StartupOffsets
    /\ pollPC = "poll"
    /\ messages = <<>>
    /\ offsetsToCommit = <<>>
    /\ fetched = <<>>
    /\ handleResult = "none"
    /\ passed = {}
    /\ commitCalls = {}
    /\ SMIdle
    /\ CalcIdle
    /\ FwdIdle
    /\ FillIdle
    /\ ExtIdle

NextCons ==
    \/ \E feed \in Feeds : Poll(feed)
    \/ \E ok \in BOOLEAN : HandleMessages(ok)
    \/ \E ok \in BOOLEAN : CommitOffsets(ok)
    \/ StopConsumer

SpecCons == InitCons /\ [][NextCons]_vars

\* C15: in an iteration of the poll loop that obtained a message, CommitOffsets
\* is called only after handleMessages returned without error; when
\* handleMessages has failed the loop has stopped and the offsets of the batch
\* were not committed.
C15_CommitOnlyAfterHandled ==
    /\ \A c \in commitCalls : c.withMessages => c.handleResult = "ok"
    /\ pollPC = "commit" /\ messages # <<>> => handleResult = "ok"
    /\ handleResult = "failed" =>
          /\ pollPC = "stopped"
          /\ \A c \in commitCalls : c.handleResult # "failed"

\* handleMessages failed on a batch after an earlier batch was committed
C15_Witness ==
    /\ handleResult = "failed"
    /\ \E c \in commitCalls : c.withMessages
    /\ messages # <<>>

\* the message was seen before the start: its offset is below the startup
\* offset of its partition
SeenBefore(msg) ==
    /\ msg.PartitionID \in DOMAIN startupCommittedOffsets
    /\ msg.Offset <= startupCommittedOffsets[msg.PartitionID] - 1

\* C16: a message whose offset is below the startup offset of its partition is
\* never passed to handleMessages; a message GetMessage returned with a higher
\* offset, or of a partition without startup offset, is in the batch that
\* getBatch returns.
C16_SkipsExactlySeenBefore ==
    /\ \A msg \in passed : ~SeenBefore(msg)
    /\ pollPC \in {"handle", "commit"} =>
          \A i \in DOMAIN fetched :
              ~SeenBefore(fetched[i]) => \E j \in DOMAIN messages : messages[j] = fetched[i]

\* a batch with a message was passed on although the broker then replayed a
\* message at the last offset seen before the start
C16_Witness ==
    /\ pollPC = "handle"
    /\ Len(fetched) > Len(messages)
    /\ messages # <<>>
    /\ \E i \in DOMAIN fetched :
          /\ fetched[i].PartitionID \in DOMAIN startupCommittedOffsets
          /\ fetched[i].Offset = startupCommittedOffsets[fetched[i].PartitionID] - 1

\* C25: the batch getBatch returns holds at most maxMessages messages.
C25_AtMostMaxMessages == Len(messages) <= maxMessages

----------------------------------------------------------------------------
(* SpecSnap: snapshots of the shard state machine.  The replica of one     *)
(* node prepares a snapshot and saves it to a writer while writes go on;   *)
(* the replica of another node recovers from what was written.             *)

SnapShardID == DataShardIDBase + 1

ShardPrefix(shardID) == AppendUint64ToBufferBE(<<>>, shardID)

\* a key that is the bare prefix of the shard, a longer key of the shard, and
\* a key of the next shard in the same store
SnapKeys ==
    {ShardPrefix(SnapShardID), ShardPrefix(SnapShardID) \o <<1>>,
     ShardPrefix(SnapShardID + 1) \o <<1>>}

SnapValues == {<<>>, <<7>>}

\* the stores the receiving node can hold before it recovers
RcvStores == UNION {[K -> {<<9>>}] : K \in SUBSET SnapKeys}

AppendUint32ToBufferLE(buf, n) ==
    buf \o <<n % 256, (n \div 256) % 256, (n \div 65536) % 256, 0>>

\* offset is 0-based as in the source
ReadUint32FromBufferLE(buf, offset) == ReadLE(buf, offset + 1, 4)

\* the frames (u32 klen, key, u32 vlen, value) of the pairs, in order
RECURSIVE writeFrames(_)
writeFrames(pairs) ==
    IF pairs = <<>> THEN <<>>
    ELSE LET p == Head(pairs)
         IN  AppendUint32ToBufferLE(
                 AppendUint32ToBufferLE(<<>>, Len(p.Key)) \o p.Key, Len(p.Value))
             \o p.Value \o writeFrames(Tail(pairs))

\* the pairs framed in buf from offset on
RECURSIVE readFrames(_, _)
readFrames(buf, offset) ==
    IF offset >= Len(buf) THEN <<>>
    ELSE LET klen == ReadUint32FromBufferLE(buf, offset)
             key == SubSeq(buf, offset + 5, offset + 4 + klen)
             vlen == ReadUint32FromBufferLE(buf, offset + 4 + klen)
             value == SubSeq(buf, offset + 9 + klen, offset + 8 + klen + vlen)
         IN  <<KVPair(key, value)>> \o readFrames(buf, offset + 8 + klen + vlen)

\* what is written to the writer: every pair of the snapshot whose key begins
\* with prefix
saveSnapshotDataToWriter(snap, prefix) ==
    writeFrames(LocalScan(snap, prefix, prefix, -1))

restoreSnapshotDataKeepingOld(kv, startPrefix, endPrefix, stream) ==
    LET pairs == readFrames(stream, 0)
    IN  PebbleApply(kv, [i \in 1..Len(pairs) |-> BatchSet(pairs[i].Key, pairs[i].Value)])

\* the store after the range [startPrefix, endPrefix) is deleted and the
\* pairs of the stream are ingested
restoreSnapshotDataFromReader(kv, startPrefix, endPrefix, stream) ==
    LET pairs == readFrames(stream, 0)
    IN  PebbleApply(ApplyOp(kv, BatchDeleteRange(startPrefix, endPrefix)),
                    [i \in 1..Len(pairs) |-> BatchSet(pairs[i].Key, pairs[i].Value)])

\* a write or a delete applied to the store of the saving node
SnapWrite(k, v) ==
    /\ sndPebble' = ApplyOp(sndPebble, BatchSet(k, v))
    /\ UNCHANGED <<snapshot, snapWriter, rcvPebble, rcvBefore, rcvListener, snapPC>>
    /\ UNCHANGED notSnapVars

SnapDelete(k) ==
    /\ k \in DOMAIN sndPebble
    /\ sndPebble' = ApplyOp(sndPebble, BatchDelete(k))
    /\ UNCHANGED <<snapshot, snapWriter, rcvPebble, rcvBefore, rcvListener, snapPC>>
    /\ UNCHANGED notSnapVars

\* ShardOnDiskStateMachine.PrepareSnapshot
PrepareSnapshot ==
    /\ snapPC = "open"
    /\ snapshot' = sndPebble
    /\ snapPC' = "prepared"
    /\ UNCHANGED <<sndPebble, snapWriter, rcvPebble, rcvBefore, rcvListener>>
    /\ UNCHANGED notSnapVars

\* ShardOnDiskStateMachine.SaveSnapshot
SaveSnapshot ==
    /\ snapPC = "prepared"
    /\ snapWriter' = saveSnapshotDataToWriter(snapshot, ShardPrefix(SnapShardID))
    /\ snapPC' = "saved"
    /\ UNCHANGED <<sndPebble, snapshot, rcvPebble, rcvBefore, rcvListener>>
    /\ UNCHANGED notSnapVars

\* ShardOnDiskStateMachine.RecoverFromSnapshot on the receiving node
RecoverFromSnapshot ==
    /\ snapPC = "saved"
    /\ rcvBefore' = rcvPebble
    /\ rcvPebble' = restoreSnapshotDataFromReader(rcvPebble, ShardPrefix(SnapShardID),
                                                  ShardPrefix(SnapShardID + 1), snapWriter)
    /\ rcvListener' = [rcvListener EXCEPT !.lst = maybeTriggerRemoteWriteOccurred(rcvListener)]
    /\ snapPC' = "recovered"
    /\ UNCHANGED <<sndPebble, snapshot, snapWriter>>
    /\ UNCHANGED notSnapVars

InitSnap ==
    /\ sndPebble = EmptyKV
    /\ snapshot = EmptyKV
    /\ snapWriter = <<>>
    /\ rcvPebble \in RcvStores
    /\ rcvBefore = EmptyKV
    /\ \E p \in BOOLEAN :
          rcvListener = [processor |-> p, listener |-> IF p THEN 1 ELSE 0,
                         lst |-> IF p THEN <<NewListener>> ELSE <<>>]
    /\ snapPC = "open"
    /\ CoreIdle
    /\ RetryIdle
    /\ GenIdle
    /\ PageIdle
    /\ SeqIdle
    /\ DelIdle
    /\ RowIdle
    /\ StopIdle
    /\ QueueIdle

NextSnap ==
    \/ \E k \in SnapKeys, v \in SnapValues : SnapWrite(k, v)
    \/ \E k \in SnapKeys : SnapDelete(k)
    \/ PrepareSnapshot
    \/ SaveSnapshot
    \/ RecoverFromSnapshot

SpecSnap == InitSnap /\ [][NextSnap]_vars

HasShardPrefix(k, shardID) == IsPrefix(ShardPrefix(shardID), k)

\* C21: after RecoverFromSnapshot the receiving store holds, among the keys
\* with the prefix of the shard, exactly the pairs the snapshot held (whatever
\* was written to the saving store after PrepareSnapshot and whatever the
\* receiver held before), and its pairs of every other shard are unchanged.
C21_SnapshotRoundTrip ==
    snapPC = "recovered" =>
        /\ \A k \in DOMAIN rcvPebble \cup DOMAIN snapshot \cup DOMAIN rcvBefore :
              IF HasShardPrefix(k, SnapShardID)
              THEN /\ k \in DOMAIN rcvPebble <=> k \in DOMAIN snapshot
                   /\ k \in DOMAIN snapshot => rcvPebble[k] = snapshot[k]
              ELSE /\ k \in DOMAIN rcvPebble <=> k \in DOMAIN rcvBefore
                   /\ k \in DOMAIN rcvBefore => rcvPebble[k] = rcvBefore[k]

\* a recovery from a snapshot that holds a pair of the shard with an empty
\* value and is older than the saving store, into a store that held a pair of
\* the shard the snapshot lacks and a pair of another shard
C21_Witness ==
    /\ snapPC = "recovered"
    /\ sndPebble # snapshot
    /\ \E k \in DOMAIN snapshot : HasShardPrefix(k, SnapShardID) /\ snapshot[k] = <<>>
    /\ \E k \in DOMAIN rcvBefore : HasShardPrefix(k, SnapShardID) /\ k \notin DOMAIN snapshot
    /\ \E k \in DOMAIN rcvBefore : ~HasShardPrefix(k, SnapShardID)
    /\ \E k \in DOMAIN snapshot : ~HasShardPrefix(k, SnapShardID)

----------------------------------------------------------------------------
(* Further properties of the shard state machine *)

\* the fields of the replica of node r that the handlers of Update work on
FieldsOf(r) ==
    [batch |-> <<>>, nodeIDs |-> smNodeIDs[r], processor |-> smProcessor[r],
     listener |-> smListener[r], lst |-> listeners[r], hasForward |-> FALSE,
     panic |-> FALSE]

\* C22: in every reachable state of a running replica, REMOVE_NODE(n) for a
\* node n outside its replica list changes neither the list, the processor
\* flag, the shard listener nor the listeners created or closed, and the entry
\* gets its OK result (Update does not panic); and REMOVE_NODE(n) applied a
\* second time changes nothing the first application left.
C22_RemoveNodeIdempotent ==
    \A r \in MemberNodes, n \in Nodes \cup {7} :
        smUp[r] =>
            \A once \in {handleEntry(FieldsOf(r), RemoveNode(n), smShardID, r)} :
                /\ (\A i \in DOMAIN smNodeIDs[r] : smNodeIDs[r][i] # n) => once = FieldsOf(r)
                /\ ~once.panic => handleEntry(once, RemoveNode(n), smShardID, r) = once

\* a replica has applied the same REMOVE_NODE twice; the first application
\* took the node out of its list and replaced its listener
C22_Witness ==
    \E r \in MemberNodes :
        /\ smUp[r]
        /\ smApplied[r] = 2
        /\ raftLog[1].cmd = shardStateMachineCommandRemoveNode
        /\ raftLog[2] = raftLog[1]
        /\ Len(smNodeIDs[r]) = Len(AllNodes) - 1
        /\ Len(listeners[r]) > 0
        /\ lastCall[r].first = 2
        /\ ~lastCall[r].panicked

\* the listeners the running state machine of replica r created that are open
OpenListeners(r) == {i \in DOMAIN listeners[r] : listeners[r][i].open}

\* C33: after any sequence of REMOVE_NODE commands a running replica holds an
\* open shard listener if and only if it is the processor of the shard: the
\* listener of a replica that stopped being the processor is closed, and a
\* replica that became the processor holds a new, open listener.
C33_OpenListenerIffProcessor ==
    \A r \in MemberNodes :
        smUp[r] =>
            /\ smProcessor[r] <=> OpenListeners(r) # {}
            /\ smProcessor[r] => OpenListeners(r) = {smListener[r]}

\* a replica became the processor by a REMOVE_NODE and holds a new listener,
\* while another replica lost the role and its listener is closed
C33_Witness ==
    \E r, q \in MemberNodes :
        /\ smUp[r] /\ smUp[q]
        /\ smProcessor[r] /\ ~newShardODStateMachine(smShardID, r, shardAllocs(smShardID)).processor
        /\ OpenListeners(r) = {smListener[r]}
        /\ ~smProcessor[q] /\ Len(listeners[q]) = 1 /\ OpenListeners(q) = {}

\* C37: over any sequence of REMOVE_NODE commands applied by one replica,
\* every shard listener it created is closed at most once and at most one is
\* open at a time, also when the replica loses the processor role and
\* regains it.
C37_ListenerClosedAtMostOnce ==
    \A r \in MemberNodes :
        /\ \A i \in DOMAIN listeners[r] : listeners[r][i].closes <= 1
        /\ Cardinality(OpenListeners(r)) <= 1

\* C38: applying REMOVE_NODE never makes the state machine fail: in every
\* state a running replica reaches by REMOVE_NODE commands, also one in
\* which its replica list holds a single node, the next REMOVE_NODE is
\* handled without a panic and the processor computation is defined.
C38_RemoveNodeNeverFails ==
    \A r \in MemberNodes, n \in Nodes :
        smUp[r] => ~handleEntry(FieldsOf(r), RemoveNode(n), smShardID, r).panic

----------------------------------------------------------------------------
(* SpecRetry: one call of Dragon.executeWithRetry.  Time is counted in     *)
(* units of retryDelay since the call started.                             *)

retryDelay == 1         \* the unit of time of this specification
MaxTimeout == 3         \* the timeout argument, in units of retryDelay
MaxCallTime == 2        \* the longest one call of f takes, in units of retryDelay

ErrClusterNotReady == "ErrClusterNotReady"
ErrOther == "ErrOther"

\* what f returns: its result and its error
FResults ==
    {[res |-> "res", err |-> "nil"], [res |-> "nil", err |-> ErrClusterNotReady],
     [res |-> "nil", err |-> ErrOther]}

NoReturn == [res |-> "none", err |-> "none"]

retryOnAnyError(r, now, timeout) ==
    IF r.err = "nil" THEN [returns |-> TRUE, res |-> r.res, err |-> "nil"]
    ELSE IF now >= timeout THEN [returns |-> TRUE, res |-> "nil", err |-> r.err]
    ELSE [returns |-> FALSE, res |-> "nil", err |-> r.err]

\* the body of the loop after f has returned r, now units after start: whether
\* executeWithRetry returns, and what
afterCall(r, now, timeout) ==
    IF r.err = "nil" THEN [returns |-> TRUE, res |-> r.res, err |-> "nil"]
    ELSE IF r.err # ErrClusterNotReady THEN [returns |-> TRUE, res |-> "nil", err |-> r.err]
    ELSE IF now >= timeout THEN [returns |-> TRUE, res |-> "nil", err |-> r.err]
    ELSE [returns |-> FALSE, res |-> "nil", err |-> r.err]

\* f is called and returns r after took units of time
RetryCall(r, took) ==
    /\ retryPC = "call"
    /\ retryNow' = retryNow + took
    /\ retryCalls' = Append(retryCalls, r.err)
    /\ \E a \in {afterCall(r, retryNow + took, retryTimeout)} :
          IF a.returns
          THEN /\ retryPC' = "returned"
               /\ retryReturn' = [res |-> a.res, err |-> a.err]
          ELSE /\ retryPC' = "sleep"
               /\ UNCHANGED retryReturn
    /\ UNCHANGED <<retryTimeout, retrySleeps>>
    /\ UNCHANGED notRetryVars

\* time.Sleep(retryDelay) returns, after retryDelay or later
RetrySleep(over) ==
    /\ retryPC = "sleep"
    /\ retryNow' = retryNow + retryDelay + over
    /\ retrySleeps' = retrySleeps + 1
    /\ retryPC' = "call"
    /\ UNCHANGED <<retryTimeout, retryCalls, retryReturn>>
    /\ UNCHANGED notRetryVars

InitRetry ==
    /\ retryTimeout \in 0..MaxTimeout
    /\ retryNow = 0
    /\ retryPC = "call"
    /\ retryCalls = <<>>
    /\ retrySleeps = 0
    /\ retryReturn = NoReturn
    /\ CoreIdle
    /\ SnapIdle
    /\ GenIdle
    /\ PageIdle
    /\ SeqIdle
    /\ DelIdle
    /\ RowIdle
    /\ StopIdle
    /\ QueueIdle

NextRetry ==
    \/ \E r \in FResults, took \in 0..MaxCallTime : RetryCall(r, took)
    \/ \E over \in 0..1 : RetrySleep(over)

SpecRetry == InitRetry /\ [][NextRetry]_vars

\* the goroutine keeps running: f returns and Sleep returns
SpecRetryFair == SpecRetry /\ WF_vars(NextRetry)

\* every call of f but the last failed with ErrClusterNotReady and was
\* followed by one sleep; executeWithRetry has returned exactly when the last
\* call succeeded (its result is returned), failed with another error (that
\* error is returned), or failed with ErrClusterNotReady at or after the
\* deadline (ErrClusterNotReady is returned)
RetryDiscipline ==
    LET n == Len(retryCalls) IN
    /\ \A i \in 1..(n - 1) : retryCalls[i] = ErrClusterNotReady
    /\ retrySleeps = IF retryPC = "call" THEN n ELSE n - 1
    /\ retryPC = "sleep" => retryCalls[n] = ErrClusterNotReady /\ retryNow < retryTimeout
    /\ retryPC = "returned" =>
          /\ retryReturn.err = retryCalls[n]
          /\ retryReturn.res = IF retryCalls[n] = "nil" THEN "res" ELSE "nil"
          /\ retryCalls[n] = ErrClusterNotReady => retryNow >= retryTimeout
    /\ retryPC # "returned" => retryReturn = NoReturn

\* C23: executeWithRetry returns the result of the first call of f that
\* succeeds, calls f again, after one sleep, only when the call failed with
\* ErrClusterNotReady before the deadline, returns any other error at once, and
\* returns ErrClusterNotReady when a call fails with it at or after the
\* deadline; and it always returns, whatever f returns and however long f
\* takes.
C23_RetriesUntilDeadline == []RetryDiscipline /\ <>(retryPC = "returned")

\* the call returned ErrClusterNotReady at the deadline after it had retried
\* twice
C23_Witness ==
    /\ retryPC = "returned"
    /\ retryReturn.err = ErrClusterNotReady
    /\ retrySleeps >= 2
    /\ retryTimeout > 0

----------------------------------------------------------------------------
(* SpecGen: every node of a cluster calls generateNodesAndShards on        *)
(* startup with the same configuration.                                    *)

MaxGenNodes == 3        \* len(d.cnf.RaftAddresses)
MaxGenShards == 4       \* numShards

GenConfigs ==
    {c \in [numNodes : 1..MaxGenNodes, replicationFactor : 0..MaxGenNodes,
            numShards : 0..MaxGenShards] : TRUE}

allNodesOf(numNodes) == [k \in 1..numNodes |-> k - 1]

nidsIgnoringShard(i, replicationFactor, numNodes) ==
    [j \in 1..replicationFactor |-> allNodesOf(numNodes)[((j - 1) % numNodes) + 1]]

\* the inner loop of generateNodesAndShards: nids of shard DataShardIDBase + i
nidsOfShard(i, replicationFactor, numNodes) ==
    [j \in 1..replicationFactor |-> allNodesOf(numNodes)[((i + (j - 1)) % numNodes) + 1]]

\* the appends of the inner loop to d.localShards
RECURSIVE appendLocal(_, _, _, _)
appendLocal(localShards, nids, shardID, nodeID) ==
    IF nids = <<>> THEN localShards
    ELSE appendLocal(IF Head(nids) = nodeID THEN Append(localShards, shardID)
                     ELSE localShards,
                     Tail(nids), shardID, nodeID)

\* the outer loop from shard i on; d holds localShards, allShards, shardAllocs
RECURSIVE generateLoop(_, _, _, _)
generateLoop(d, i, cnf, nodeID) ==
    IF i >= cnf.numShards THEN d
    ELSE LET shardID == DataShardIDBase + i
             nids == nidsOfShard(i, cnf.replicationFactor, cnf.numNodes)
         IN  generateLoop(
                 [localShards |-> appendLocal(d.localShards, nids, shardID, nodeID),
                  allShards |-> Append(d.allShards, shardID),
                  shardAllocs |-> [s \in DOMAIN d.shardAllocs \cup {shardID} |->
                                     IF s = shardID THEN nids ELSE d.shardAllocs[s]]],
                 i + 1, cnf, nodeID)

\* Dragon.generateNodesAndShards on node nodeID
GenerateNodesAndShards(nodeID) ==
    /\ nodeID \in 0..(genCnf.numNodes - 1)
    /\ genResult[nodeID] = <<>>
    /\ genResult' = [genResult EXCEPT ![nodeID] =
                        generateLoop([localShards |-> <<>>, allShards |-> <<>>,
                                      shardAllocs |-> <<>>], 0, genCnf, nodeID)]
    /\ UNCHANGED genCnf
    /\ UNCHANGED notGenVars

InitGen ==
    /\ genCnf \in GenConfigs
    /\ genResult = [n \in 0..(genCnf.numNodes - 1) |-> <<>>]
    /\ CoreIdle
    /\ SnapIdle
    /\ RetryIdle
    /\ PageIdle
    /\ SeqIdle
    /\ DelIdle
    /\ RowIdle
    /\ StopIdle
    /\ QueueIdle

NextGen == \E nodeID \in 0..(MaxGenNodes - 1) : GenerateNodesAndShards(nodeID)

SpecGen == InitGen /\ [][NextGen]_vars

CountIn(seq, x) == Cardinality({k \in DOMAIN seq : seq[k] = x})

\* C24: on every node that has run generateNodesAndShards, shard
\* DataShardIDBase + i has the replica list (i + j) mod numNodes for j in
\* [0, R), the same on all nodes; for R <= numNodes the replicas of a shard
\* are distinct and localShards holds a shard once if the node is one of its
\* replicas and not at all otherwise.  With the layout of the other
\* specifications the lists are those of shardAllocs there.
C24_ShardAllocation ==
    \A n \in DOMAIN genResult :
        genResult[n] # <<>> =>
            LET d == genResult[n]
                R == genCnf.replicationFactor
            IN  /\ d.allShards = [k \in 1..genCnf.numShards |-> DataShardIDBase + (k - 1)]
                /\ DOMAIN d.shardAllocs = Range(d.allShards)
                /\ \A i \in 0..(genCnf.numShards - 1) :
                      LET nids == d.shardAllocs[DataShardIDBase + i]
                      IN  /\ nids = [j \in 1..R |-> (i + (j - 1)) % genCnf.numNodes]
                          /\ R <= genCnf.numNodes =>
                                /\ \A j, k \in 1..R : j # k => nids[j] # nids[k]
                                /\ CountIn(d.localShards, DataShardIDBase + i)
                                       = IF \E j \in 1..R : nids[j] = n THEN 1 ELSE 0
                          /\ (genCnf.numNodes = NumNodes /\ R = ReplicationFactor
                                /\ DataShardIDBase + i \in ShardIDs)
                                => nids = shardAllocs(DataShardIDBase + i)
                /\ \A m \in DOMAIN genResult :
                      genResult[m] # <<>> =>
                          /\ genResult[m].shardAllocs = d.shardAllocs
                          /\ genResult[m].allShards = d.allShards

\* two nodes of a cluster with fewer replicas than nodes and more shards than
\* nodes have generated their shards; one of them has a shard that is not local
C24_Witness ==
    /\ genCnf.replicationFactor > 1
    /\ genCnf.replicationFactor < genCnf.numNodes
    /\ genCnf.numShards > genCnf.numNodes
    /\ \E n, m \in DOMAIN genResult :
          /\ n # m
          /\ genResult[n] # <<>>
          /\ genResult[m] # <<>>
          /\ Len(genResult[n].localShards) < genCnf.numShards
          /\ Len(genResult[n].localShards) > 0

----------------------------------------------------------------------------
(* SpecPage: one call of Server.ExecuteSQLStatement after the statement    *)
(* has been executed.  The executor holds a finite result and GetRows      *)
(* returns the next rows of it, at most limit.                             *)

MaxPageSize == 3        \* the PageSize of the request
MaxResult == 4          \* the rows of the result

NothingSent == [columns |-> 0, pagesFirst |-> FALSE, full |-> FALSE, short |-> 0,
                afterShort |-> FALSE, last |-> -1]

\* executor.GetRows(limit): the number of rows returned
GetRowsCount(remaining, limit) == IF remaining < limit THEN remaining ELSE limit

lastPageWhenEmpty(numRows, limit) == numRows = 0

\* the test that ends the loop of ExecuteSQLStatement
lastPage(numRows, limit) == numRows < limit

\* stream.Send of the Columns message
SendColumns(ok) ==
    /\ pagePC = "columns"
    /\ IF ok
       THEN /\ pageSent' = [pageSent EXCEPT !.columns = @ + 1]
            /\ pagePC' = "getRows"
            /\ UNCHANGED pageErr
       ELSE /\ pagePC' = "returned"
            /\ pageErr' = TRUE
            /\ UNCHANGED pageSent
    /\ UNCHANGED <<pageSize, pageRemaining, pageRows>>
    /\ UNCHANGED notPageVars

\* executor.GetRows(limit)
GetRows(ok) ==
    /\ pagePC = "getRows"
    /\ IF ok
       THEN /\ pageRows' = GetRowsCount(pageRemaining, pageSize)
            /\ pageRemaining' = pageRemaining - GetRowsCount(pageRemaining, pageSize)
            /\ pagePC' = "send"
            /\ UNCHANGED pageErr
       ELSE /\ pagePC' = "returned"
            /\ pageErr' = TRUE
            /\ UNCHANGED <<pageRows, pageRemaining>>
    /\ UNCHANGED <<pageSize, pageSent>>
    /\ UNCHANGED notPageVars

\* stream.Send of the page and the test that follows
SendPage(ok) ==
    /\ pagePC = "send"
    /\ IF ok
       THEN /\ pageSent' = [pageSent EXCEPT
                               !.pagesFirst = @ \/ pageSent.columns = 0,
                               !.full = @ \/ (pageRows = pageSize /\ pageRows > 0),
                               !.afterShort = @ \/ pageSent.short > 0,
                               !.short = IF pageRows < pageSize THEN 1 ELSE @,
                               !.last = pageRows]
            /\ pagePC' = IF lastPage(pageRows, pageSize) THEN "returned" ELSE "getRows"
            /\ UNCHANGED pageErr
       ELSE /\ pagePC' = "returned"
            /\ pageErr' = TRUE
            /\ UNCHANGED pageSent
    /\ UNCHANGED <<pageSize, pageRemaining, pageRows>>
    /\ UNCHANGED notPageVars

InitPage ==
    /\ pageSize \in 0..MaxPageSize
    /\ pageRemaining \in 0..MaxResult
    /\ pagePC = "columns"
    /\ pageRows = 0
    /\ pageSent = NothingSent
    /\ pageErr = FALSE
    /\ CoreIdle
    /\ SnapIdle
    /\ RetryIdle
    /\ GenIdle
    /\ SeqIdle
    /\ DelIdle
    /\ RowIdle
    /\ StopIdle
    /\ QueueIdle

NextPage ==
    \/ \E ok \in BOOLEAN : SendColumns(ok)
    \/ \E ok \in BOOLEAN : GetRows(ok)
    \/ \E ok \in BOOLEAN : SendPage(ok)

\* the handler keeps running: GetRows and Send return
SpecPage == InitPage /\ [][NextPage]_vars /\ WF_vars(NextPage)

\* one Columns message is sent before the first page, no page is sent after a
\* page with fewer rows than pageSize, and the call returns without an error
\* only after such a page, with the whole result sent
PageDiscipline ==
    /\ ~pageSent.pagesFirst
    /\ pageSent.columns <= 1
    /\ ~pageSent.afterShort
    /\ (pagePC = "returned" /\ ~pageErr) =>
          /\ pageSent.short = 1
          /\ pageSent.last < pageSize
          /\ pageRemaining = 0

\* C26 as stated: Columns first, then pages, none after the first page with
\* fewer rows than pageSize, and the call returns for every pageSize and every
\* finite result.
C26_PagesUntilShortPage == []PageDiscipline /\ <>(pagePC = "returned")

\* C26: Columns first, then pages, none after the first page with fewer rows
\* than pageSize, and for every pageSize >= 1 and every finite result the call
\* returns, also when the size of the result is a multiple of pageSize.  (With
\* pageSize 0 the call returns only if GetRows or Send returns an error.)
C26_PagesUntilShortPageFromOne ==
    []PageDiscipline /\ (pageSize >= 1 => <>(pagePC = "returned"))

\* the call returned without an error after full pages and an empty last page
C26_Witness ==
    /\ pagePC = "returned"
    /\ ~pageErr
    /\ pageSize >= 1
    /\ pageSent.full
    /\ pageSent.last = 0

----------------------------------------------------------------------------
(* SpecSeq: calls of Dragon.GenerateClusterSequence on two nodes and the   *)
(* sequence state machine of group tableSequenceClusterID.  A proposal is  *)
(* applied at most once (the session is a NoOP session); a call that gave  *)
(* up may leave its proposal behind, and that proposal may still be        *)
(* applied.                                                                *)

MaxProposals == 3       \* proposals made in one behaviour
MaxTries == 2           \* calls of f within one executeWithRetry
UserTableIDBase == 1000
seqStateMachineUpdatedOK == 1
SeqNames == {"table", "unionall"}
SeqCallers == {0, 1}
NoResult == [Value |-> 0, Data |-> <<>>, index |-> 0]
SeqCallIdle == [pc |-> "idle", name |-> "", id |-> 0, tries |-> 0, res |-> NoResult]

seqUpdateKeeping(store, name) ==
    [store |-> store,
     res |-> [Value |-> seqStateMachineUpdatedOK,
              Data |-> AppendUint64ToBufferLE(<<>>, store[name])]]

\* the sequence state machine applies one proposal
seqUpdate(store, name) ==
    [store |-> [store EXCEPT ![name] = @ + 1],
     res |-> [Value |-> seqStateMachineUpdatedOK,
              Data |-> AppendUint64ToBufferLE(<<>>, store[name])]]

\* GenerateClusterSequence: what is returned for the result of the proposal
sequenceOf(proposeRes) ==
    IF proposeRes.Value # seqStateMachineUpdatedOK
    THEN [err |-> TRUE, seqVal |-> 0]
    ELSE [err |-> FALSE, seqVal |-> ReadUint64FromBufferLE(proposeRes.Data, 0)]

\* a call of GenerateClusterSequence(name) on node c begins
SeqCall(c, name) ==
    /\ seqCalls[c].pc = "idle"
    /\ seqNextID <= MaxProposals
    /\ seqCalls' = [seqCalls EXCEPT ![c] = [SeqCallIdle EXCEPT !.pc = "calling", !.name = name]]
    /\ UNCHANGED <<seqStore, seqPending, seqNextID, seqApplied, seqReturns>>
    /\ UNCHANGED notSeqVars

\* f(): SyncPropose hands the command to the group
SeqPropose(c) ==
    /\ seqCalls[c].pc = "calling"
    /\ seqNextID <= MaxProposals
    /\ seqPending' = seqPending \cup {[id |-> seqNextID, name |-> seqCalls[c].name]}
    /\ seqNextID' = seqNextID + 1
    /\ seqCalls' = [seqCalls EXCEPT ![c].pc = "waiting", ![c].id = seqNextID,
                                    ![c].tries = @ + 1]
    /\ UNCHANGED <<seqStore, seqApplied, seqReturns>>
    /\ UNCHANGED notSeqVars

\* the group applies a pending proposal; the caller that still waits for it
\* gets the result
SeqApply(p) ==
    /\ p \in seqPending
    /\ \A upd \in {seqUpdate(seqStore, p.name)} :
          /\ seqStore' = upd.store
          /\ seqApplied' = Append(seqApplied, p.id)
          /\ seqCalls' = [c \in SeqCallers |->
                            IF seqCalls[c].pc = "waiting" /\ seqCalls[c].id = p.id
                            THEN [seqCalls[c] EXCEPT
                                     !.res = [Value |-> upd.res.Value, Data |-> upd.res.Data,
                                              index |-> Len(seqApplied) + 1]]
                            ELSE seqCalls[c]]
    /\ seqPending' = seqPending \ {p}
    /\ UNCHANGED <<seqNextID, seqReturns>>
    /\ UNCHANGED notSeqVars

\* SyncPropose returns the result and GenerateClusterSequence returns
SeqReturn(c) ==
    /\ seqCalls[c].pc = "waiting"
    /\ seqCalls[c].res # NoResult
    /\ \A r \in {sequenceOf(seqCalls[c].res)} :
          seqReturns' = IF r.err THEN seqReturns
                        ELSE Append(seqReturns, [node |-> c, name |-> seqCalls[c].name,
                                                 seqVal |-> r.seqVal,
                                                 index |-> seqCalls[c].res.index])
    /\ seqCalls' = [seqCalls EXCEPT ![c] = SeqCallIdle]
    /\ UNCHANGED <<seqStore, seqPending, seqNextID, seqApplied>>
    /\ UNCHANGED notSeqVars

\* SyncPropose returns ErrClusterNotReady: f is called again, or the deadline
\* has passed and the call returns the error.  The proposal is dropped, or it
\* stays behind.
SeqNotReady(c, dropped, expired) ==
    /\ seqCalls[c].pc = "waiting"
    /\ seqCalls[c].res = NoResult
    /\ seqPending' = IF dropped THEN {p \in seqPending : p.id # seqCalls[c].id}
                     ELSE seqPending
    /\ seqCalls' = IF expired \/ seqCalls[c].tries >= MaxTries
                   THEN [seqCalls EXCEPT ![c] = SeqCallIdle]
                   ELSE [seqCalls EXCEPT ![c].pc = "calling", ![c].id = 0]
    /\ UNCHANGED <<seqStore, seqNextID, seqApplied, seqReturns>>
    /\ UNCHANGED notSeqVars

\* SyncPropose returns another error (its context timed out): the call returns
\* the error and the proposal stays behind
SeqTimeout(c) ==
    /\ seqCalls[c].pc = "waiting"
    /\ seqCalls' = [seqCalls EXCEPT ![c] = SeqCallIdle]
    /\ UNCHANGED <<seqStore, seqPending, seqNextID, seqApplied, seqReturns>>
    /\ UNCHANGED notSeqVars

InitSeq ==
    /\ seqStore = [n \in SeqNames |-> 0]
    /\ seqCalls = [c \in SeqCallers |-> SeqCallIdle]
    /\ seqPending = {}
    /\ seqNextID = 1
    /\ seqApplied = <<>>
    /\ seqReturns = <<>>
    /\ CoreIdle
    /\ SnapIdle
    /\ RetryIdle
    /\ GenIdle
    /\ PageIdle
    /\ DelIdle
    /\ RowIdle
    /\ StopIdle
    /\ QueueIdle

NextSeq ==
    \/ \E c \in SeqCallers, name \in SeqNames : SeqCall(c, name)
    \/ \E c \in SeqCallers : SeqPropose(c)
    \/ \E p \in seqPending : SeqApply(p)
    \/ \E c \in SeqCallers : SeqReturn(c)
    \/ \E c \in SeqCallers, dropped \in BOOLEAN, expired \in BOOLEAN :
          SeqNotReady(c, dropped, expired)
    \/ \E c \in SeqCallers : SeqTimeout(c)

SpecSeq == InitSeq /\ [][NextSeq]_vars

\* FillTo: the table ID of the fill table
fillTableIDOf(seqVal) == seqVal + UserTableIDBase

\* C27: for one sequence name, two successful calls of GenerateClusterSequence
\* (on any nodes, concurrent or retried) never return the same value, and the
\* call whose proposal was applied later returns the greater value; two fills
\* never get the same fillTableID.
C27_SequenceValuesDistinct ==
    \A i, j \in 1..Len(seqReturns) :
        (i # j /\ seqReturns[i].name = seqReturns[j].name) =>
            /\ seqReturns[i].seqVal # seqReturns[j].seqVal
            /\ (seqReturns[i].index < seqReturns[j].index
                   => seqReturns[i].seqVal < seqReturns[j].seqVal)
            /\ (seqReturns[i].name = "table"
                   => fillTableIDOf(seqReturns[i].seqVal) # fillTableIDOf(seqReturns[j].seqVal))

\* two calls for "table" returned on different nodes, the one that returned
\* first had its proposal applied last, and a proposal left behind by a call
\* that gave up was applied in between
C27_Witness ==
    \E i, j \in 1..Len(seqReturns) :
        /\ i < j
        /\ seqReturns[i].name = "table" /\ seqReturns[j].name = "table"
        /\ seqReturns[i].node # seqReturns[j].node
        /\ seqReturns[i].index > seqReturns[j].index + 1

----------------------------------------------------------------------------
(* SpecDel: one call of Dragon.DeleteAllDataInRangeForAllShards.  The      *)
(* Pebble store of the node holds the keys of both shards; other writers   *)
(* put keys while the call runs.  A proposal whose caller gave up may      *)
(* still be applied.                                                       *)

MaxDelIndex == 2        \* raft index reached by a shard in one behaviour
DelTable == UserTableIDBase
DelShards == <<DataShardIDBase + 1, DataShardIDBase + 2>>      \* d.allShards
DelIdx == 1..Len(DelShards)
TablePrefix(tableID) == AppendUint64ToBufferBE(<<>>, tableID)

\* the key that is the bare prefix of the table, a row of the table, and the
\* bare prefix of the next table, in every shard
DelKeysOf(shardID) ==
    {ShardPrefix(shardID) \o TablePrefix(DelTable),
     ShardPrefix(shardID) \o TablePrefix(DelTable) \o <<1>>,
     ShardPrefix(shardID) \o TablePrefix(DelTable + 1)}
DelKeys == UNION {DelKeysOf(DelShards[i]) : i \in DelIdx}
\* the stores at the time of the call: the same rows in both shards
DelStores ==
    {[k \in UNION {{ShardPrefix(DelShards[i]) \o suffix : suffix \in K} : i \in DelIdx}
         |-> <<7>>] :
        K \in SUBSET {TablePrefix(DelTable), TablePrefix(DelTable) \o <<1>>,
                      TablePrefix(DelTable + 1)}}
DelRanges ==
    {[startPrefix |-> TablePrefix(DelTable), endPrefix |-> TablePrefix(DelTable + 1)],
     [startPrefix |-> TablePrefix(DelTable), endPrefix |-> TablePrefix(DelTable + 2)]}

\* [shardID||start, shardID||end)
InShardRange(k, shardID, rng) ==
    /\ ~BytesLess(k, ShardPrefix(shardID) \o rng.startPrefix)
    /\ BytesLess(k, ShardPrefix(shardID) \o rng.endPrefix)

\* Update of the state machine of the shard for one DELETE_RANGE entry
updateDeleteRange(kv, shardID, rng, index) ==
    \* the command is built inside the call so that it is rebuilt with the builder
    PebbleApply(kv,
        writeLastIndexValue(
            handleDeleteRange([batch |-> <<>>],
                DeleteAllDataInRangeForShard(shardID, rng.startPrefix, rng.endPrefix)).batch,
            index, shardID))

\* the goroutine of shard i: proposeWithRetry hands the command to the group
DelPropose(i) ==
    /\ delPC[i] = "run"
    /\ delPC' = [delPC EXCEPT ![i] = "proposed"]
    /\ delProposal' = [delProposal EXCEPT ![i] = "pending"]
    /\ UNCHANGED <<delStore, delRange, delChan, delNext, delReturn, delIndex,
                   delRemoved, delWrittenAfter>>
    /\ UNCHANGED notDelVars

\* the group of shard i applies the proposal
DelApply(i) ==
    /\ delProposal[i] = "pending"
    /\ delIndex[i] < MaxDelIndex
    /\ \A kv \in {updateDeleteRange(delStore, DelShards[i], delRange, delIndex[i] + 1)} :
          /\ delStore' = kv
          /\ delRemoved' = delRemoved \cup
                              {<<DelShards[i], k>> : k \in DOMAIN delStore \ DOMAIN kv}
          /\ delWrittenAfter' = delWrittenAfter \ {k \in DelKeys : InShardRange(k, DelShards[i], delRange)}
    /\ delProposal' = [delProposal EXCEPT ![i] = "applied"]
    /\ delIndex' = [delIndex EXCEPT ![i] = @ + 1]
    /\ UNCHANGED <<delRange, delPC, delChan, delNext, delReturn>>
    /\ UNCHANGED notDelVars

\* proposeWithRetry returns the result: ch <- nil
DelSucceed(i) ==
    /\ delPC[i] = "proposed"
    /\ delProposal[i] = "applied"
    /\ delPC' = [delPC EXCEPT ![i] = "done"]
    /\ delChan' = [delChan EXCEPT ![i] = "nil"]
    /\ UNCHANGED <<delStore, delRange, delProposal, delNext, delReturn, delIndex,
                   delRemoved, delWrittenAfter>>
    /\ UNCHANGED notDelVars

\* proposeWithRetry returns an error: ch <- err.  A proposal that was not
\* applied is dropped or stays behind.
DelFail(i, dropped) ==
    /\ delPC[i] = "proposed"
    /\ delPC' = [delPC EXCEPT ![i] = "done"]
    /\ delChan' = [delChan EXCEPT ![i] = "err"]
    /\ delProposal' = IF dropped /\ delProposal[i] = "pending"
                      THEN [delProposal EXCEPT ![i] = "dropped"]
                      ELSE delProposal
    /\ UNCHANGED <<delStore, delRange, delNext, delReturn, delIndex,
                   delRemoved, delWrittenAfter>>
    /\ UNCHANGED notDelVars

\* the second loop of DeleteAllDataInRangeForAllShards: err, ok := <-ch
DelReceive ==
    /\ delReturn = "none"
    /\ delNext \in DelIdx
    /\ delChan[delNext] # "empty"
    /\ IF delChan[delNext] = "err"
       THEN delReturn' = "err" /\ UNCHANGED delNext
       ELSE /\ delNext' = delNext + 1
            /\ delReturn' = IF delNext = Len(DelShards) THEN "nil" ELSE "none"
    /\ UNCHANGED <<delStore, delRange, delPC, delProposal, delChan, delIndex,
                   delRemoved, delWrittenAfter>>
    /\ UNCHANGED notDelVars

\* another writer: the group of shard i applies a batch that puts a new key k
DelWrite(i, k) ==
    /\ k \in DelKeysOf(DelShards[i])
    /\ k \notin DOMAIN delStore
    /\ delIndex[i] < MaxDelIndex
    /\ delStore' = PebbleApply(delStore,
                       writeLastIndexValue(<<BatchSet(k, <<7>>)>>, delIndex[i] + 1, DelShards[i]))
    /\ delIndex' = [delIndex EXCEPT ![i] = @ + 1]
    /\ delWrittenAfter' = IF delProposal[i] = "applied"
                          THEN delWrittenAfter \cup {k} ELSE delWrittenAfter
    /\ UNCHANGED <<delRange, delPC, delProposal, delChan, delNext, delReturn, delRemoved>>
    /\ UNCHANGED notDelVars

InitDel ==
    /\ delStore \in DelStores
    /\ delRange \in DelRanges
    /\ delPC = [i \in DelIdx |-> "run"]
    /\ delProposal = [i \in DelIdx |-> "none"]
    /\ delChan = [i \in DelIdx |-> "empty"]
    /\ delNext = 1
    /\ delReturn = "none"
    /\ delIndex = [i \in DelIdx |-> 0]
    /\ delRemoved = {}
    /\ delWrittenAfter = {}
    /\ CoreIdle
    /\ SnapIdle
    /\ RetryIdle
    /\ GenIdle
    /\ PageIdle
    /\ SeqIdle
    /\ RowIdle
    /\ StopIdle
    /\ QueueIdle

NextDel ==
    \/ \E i \in DelIdx : DelPropose(i)
    \/ \E i \in DelIdx : DelApply(i)
    \/ \E i \in DelIdx : DelSucceed(i)
    \/ \E i \in DelIdx, dropped \in BOOLEAN : DelFail(i, dropped)
    \/ DelReceive
    \/ \E i \in DelIdx, k \in DelKeys : DelWrite(i, k)

SpecDel == InitDel /\ [][NextDel]_vars

\* C28: DeleteAllDataInRangeForAllShards returns nil only after the
\* DELETE_RANGE of every shard has been applied, and never when a proposal
\* failed; once the DELETE_RANGE of a shard has been applied, the keys of the
\* shard in [shardID||start, shardID||end) are only keys written afterwards;
\* the DELETE_RANGE of shard S removes only keys of the range that carry the
\* prefix of S.
C28_DeleteRangeOnEveryShard ==
    /\ delReturn = "nil" =>
          \A i \in DelIdx : delProposal[i] = "applied" /\ delChan[i] = "nil"
    /\ \A i \in DelIdx :
          delProposal[i] = "applied" =>
              \A k \in DOMAIN delStore :
                  InShardRange(k, DelShards[i], delRange) => k \in delWrittenAfter
    /\ \A r \in delRemoved :
          HasShardPrefix(r[2], r[1]) /\ InShardRange(r[2], r[1], delRange)

\* the call returned nil, keys of both shards were removed and keys outside
\* the range are still there
C28_Witness ==
    /\ delReturn = "nil"
    /\ \A i \in DelIdx : \E r \in delRemoved : r[1] = DelShards[i]
    /\ \E k \in DOMAIN delStore \cap DelKeys :
          \A i \in DelIdx : ~InShardRange(k, DelShards[i], delRange)

----------------------------------------------------------------------------
(* TableExecutor.HandleRows: previous rows and the table after the commit *)

MaxRowCalls == 2                        \* calls of HandleRows
RowBatchLens == {1, 2}                  \* rowsBatch.Len() of a call
RowPKs == {1, 2}                        \* primary keys of the rows

\* the entry of a batch: a put of a new row for pk, or a delete of pk with
\* the previous row the sender provides
BatchEntry(isPut, pk, val) ==
    IF isPut THEN RowsEntry(<<>>, Row(pk, val)) ELSE RowsEntry(Row(pk, 0), <<>>)

\* the rows batches of a call: entry i carries the value base + i
RowsBatches(base) ==
    UNION {{[i \in 1..n |-> BatchEntry(isPut[i], pk[i], base + i)] :
                isPut \in [1..n -> BOOLEAN], pk \in [1..n -> RowPKs]} : n \in RowBatchLens}

\* the key an entry writes
EntryKey(e, shardID) == <<shardID, IF e.curr # <<>> THEN e.curr.pk ELSE e.prev.pk>>

\* the row most recently written for key before entry i of rowsBatch: by an
\* earlier entry of the same batch or, if there is none, the row of the table
RowBefore(rowsBatch, kv, shardID, i) ==
    LET earlier == {j \in 1..(i - 1) : EntryKey(rowsBatch[j], shardID) = EntryKey(rowsBatch[i], shardID)}
    IN  IF earlier = {} THEN LocalGet(kv, EntryKey(rowsBatch[i], shardID))
        ELSE rowsBatch[CHOOSE j \in earlier : \A l \in earlier : l <= j].curr

\* the writes of rowsBatch in their order, on the record of the last writes
RECURSIVE writeInOrder(_, _, _)
writeInOrder(written, rowsBatch, shardID) ==
    IF rowsBatch = <<>> THEN written
    ELSE writeInOrder(MapPut(written, EntryKey(Head(rowsBatch), shardID), Head(rowsBatch).curr),
                      Tail(rowsBatch), shardID)

\* handleWrite of the shard state machine on the store: the puts of the
\* batch, then its deletes
applyWriteBatch(kv, puts, deletes) ==
    LET afterPuts == MapPutAll(kv, puts)
    IN  [k \in DOMAIN afterPuts \ Range(deletes) |-> afterPuts[k]]

\* HandleRows for rowsBatch on the scheduler of shardID
RowHandleRows(shardID, rowsBatch) ==
    /\ rowPC = "idle"
    /\ rowCalls < MaxRowCalls
    /\ rowBatchIn' = [shardID |-> shardID, rows |-> rowsBatch]
    /\ rowOut' = handleRowsLoop(rowsBatch, rowStore, shardID, NoWrites)
    /\ rowWritten' = writeInOrder(rowWritten, rowsBatch, shardID)
    /\ rowCalls' = rowCalls + 1
    /\ rowPC' = "handled"
    /\ UNCHANGED rowStore
    /\ UNCHANGED notRowVars

\* the write batch of the call commits
RowCommit ==
    /\ rowPC = "handled"
    /\ rowStore' = applyWriteBatch(rowStore, rowOut.puts, rowOut.deletes)
    /\ rowPC' = "idle"
    /\ UNCHANGED <<rowBatchIn, rowOut, rowWritten, rowCalls>>
    /\ UNCHANGED notRowVars

InitRow ==
    /\ rowStore = <<>>
    /\ rowBatchIn = <<>>
    /\ rowOut = NoWrites
    /\ rowPC = "idle"
    /\ rowWritten = <<>>
    /\ rowCalls = 0
    /\ CoreIdle
    /\ SnapIdle
    /\ RetryIdle
    /\ GenIdle
    /\ PageIdle
    /\ SeqIdle
    /\ DelIdle
    /\ StopIdle
    /\ QueueIdle

NextRow ==
    \/ \E sh \in FillShards : \E b \in RowsBatches(rowCalls * 2) : RowHandleRows(sh, b)
    \/ RowCommit

SpecRow == InitRow /\ [][NextRow]_vars

\* C32: for every entry with a current row HandleRows emits as previous row
\* the row most recently written for the same primary key on the shard, none
\* if the key was never written or was deleted, also when the earlier write is
\* in the same batch; when the batches have committed the table holds for
\* every primary key the row written last.
C32_PreviousRowIsLastWritten ==
    /\ rowPC = "handled" =>
          \A i \in DOMAIN rowBatchIn.rows :
              rowBatchIn.rows[i].curr # <<>> =>
                  rowOut.entries[i].prev =
                      RowBefore(rowBatchIn.rows, rowStore, rowBatchIn.shardID, i)
    /\ rowPC = "idle" =>
          \A k \in DOMAIN rowWritten : LocalGet(rowStore, k) = rowWritten[k]

----------------------------------------------------------------------------
(* SpecStop: MessageConsumer.Stop, called by two goroutines any number of  *)
(* times up to MaxStopCalls, and the poll loop it waits for.               *)

MaxStopCalls == 3                       \* calls of Stop
StopCallers == {0, 1}
loopChCapacity == 1                     \* make(chan struct{}, 1)

\* Stop after the CompareAndSet, which fails when running was false
afterCompareAndSetWaiting(wasRunning) == "wait"

afterCompareAndSet(wasRunning) == IF wasRunning THEN "wait" ELSE "returned"

\* pollLoop: the loop condition m.running.Get(); on false the function
\* returns and the deferred send puts a value into loopCh
LoopCheck ==
    /\ mcLoopPC = "check"
    /\ IF mcRunning
       THEN mcLoopPC' = "iter" /\ UNCHANGED mcLoopCh
       ELSE /\ mcLoopCh < loopChCapacity
            /\ mcLoopCh' = mcLoopCh + 1
            /\ mcLoopPC' = "exitedStop"
    /\ UNCHANGED <<mcRunning, mcStopPC, mcStopWon, mcStopCalls, mcProviderStops>>
    /\ UNCHANGED notStopVars

\* pollLoop: one iteration; when getBatch, handleMessages or CommitOffsets
\* fails, consumerError stops the provider and the function returns
LoopIteration(ok) ==
    /\ mcLoopPC = "iter"
    /\ IF ok
       THEN mcLoopPC' = "check" /\ UNCHANGED <<mcLoopCh, mcProviderStops>>
       ELSE /\ mcLoopCh < loopChCapacity
            /\ mcProviderStops' = mcProviderStops + 1
            /\ mcLoopCh' = mcLoopCh + 1
            /\ mcLoopPC' = "exitedError"
    /\ UNCHANGED <<mcRunning, mcStopPC, mcStopWon, mcStopCalls>>
    /\ UNCHANGED notStopVars

\* a goroutine calls Stop
StopCall(c) ==
    /\ mcStopPC[c] \in {"none", "returned"}
    /\ mcStopCalls < MaxStopCalls
    /\ mcStopCalls' = mcStopCalls + 1
    /\ mcStopPC' = [mcStopPC EXCEPT ![c] = "cas"]
    /\ mcStopWon' = [mcStopWon EXCEPT ![c] = FALSE]
    /\ UNCHANGED <<mcRunning, mcLoopCh, mcLoopPC, mcProviderStops>>
    /\ UNCHANGED notStopVars

\* Stop: m.running.CompareAndSet(true, false)
StopCompareAndSet(c) ==
    /\ mcStopPC[c] = "cas"
    /\ mcRunning' = FALSE
    /\ mcStopWon' = [mcStopWon EXCEPT ![c] = mcRunning]
    /\ mcStopPC' = [mcStopPC EXCEPT ![c] = afterCompareAndSet(mcRunning)]
    /\ UNCHANGED <<mcLoopCh, mcLoopPC, mcStopCalls, mcProviderStops>>
    /\ UNCHANGED notStopVars

\* Stop: <-m.loopCh
StopReceive(c) ==
    /\ mcStopPC[c] = "wait"
    /\ mcLoopCh > 0
    /\ mcLoopCh' = mcLoopCh - 1
    /\ mcStopPC' = [mcStopPC EXCEPT ![c] = "provider"]
    /\ UNCHANGED <<mcRunning, mcLoopPC, mcStopWon, mcStopCalls, mcProviderStops>>
    /\ UNCHANGED notStopVars

\* Stop: m.msgProvider.Stop() returns and Stop returns its result
StopProvider(c) ==
    /\ mcStopPC[c] = "provider"
    /\ mcProviderStops' = mcProviderStops + 1
    /\ mcStopPC' = [mcStopPC EXCEPT ![c] = "returned"]
    /\ UNCHANGED <<mcRunning, mcLoopCh, mcLoopPC, mcStopWon, mcStopCalls>>
    /\ UNCHANGED notStopVars

\* NewMessageConsumer and start
InitStop ==
    /\ mcRunning = TRUE
    /\ mcLoopCh = 0
    /\ mcLoopPC = "check"
    /\ mcStopPC = [c \in StopCallers |-> "none"]
    /\ mcStopWon = [c \in StopCallers |-> FALSE]
    /\ mcStopCalls = 0
    /\ mcProviderStops = 0
    /\ CoreIdle
    /\ SnapIdle
    /\ RetryIdle
    /\ GenIdle
    /\ PageIdle
    /\ SeqIdle
    /\ DelIdle
    /\ RowIdle
    /\ QueueIdle

NextStop ==
    \/ LoopCheck
    \/ \E ok \in BOOLEAN : LoopIteration(ok)
    \/ \E c \in StopCallers : StopCall(c)
    \/ \E c \in StopCallers : StopCompareAndSet(c)
    \/ \E c \in StopCallers : StopReceive(c)
    \/ \E c \in StopCallers : StopProvider(c)

\* the poll loop and the callers of Stop are goroutines: each takes its next
\* step when that stays possible; the calls inside an iteration return
SpecStop ==
    /\ InitStop
    /\ [][NextStop]_vars
    /\ WF_vars(LoopCheck)
    /\ WF_vars(\E ok \in BOOLEAN : LoopIteration(ok))
    /\ \A c \in StopCallers :
          /\ WF_vars(StopCompareAndSet(c))
          /\ WF_vars(StopReceive(c))
          /\ WF_vars(StopProvider(c))

LoopExited == mcLoopPC \in {"exitedStop", "exitedError"}

StopInCall(c) == mcStopPC[c] \in {"cas", "wait", "provider"}

\* a call whose CompareAndSet succeeded goes on only when the loop has exited;
\* a call whose CompareAndSet failed has returned, and never waits
StopDiscipline ==
    \A c \in StopCallers :
        /\ (mcStopWon[c] /\ mcStopPC[c] \in {"provider", "returned"}) => LoopExited
        /\ (~mcStopWon[c] /\ mcStopPC[c] # "cas") => mcStopPC[c] \in {"none", "returned"}

\* C36: MessageConsumer.Stop always returns: the call that sets running to
\* false returns only after the poll loop has exited, also when the loop had
\* exited through consumerError before; a later call returns at once without
\* waiting.
C36_StopReturns ==
    /\ []StopDiscipline
    /\ \A c \in StopCallers : StopInCall(c) ~> (mcStopPC[c] = "returned")

\* the poll loop exited through consumerError, a first Stop has returned
\* after it and a second call of Stop has returned too
C36_Witness ==
    /\ mcLoopPC = "exitedError"
    /\ \E c, d \in StopCallers :
          /\ mcStopPC[c] = "returned" /\ mcStopWon[c]
          /\ d # c /\ mcStopPC[d] = "returned" /\ ~mcStopWon[d]
    /\ mcProviderStops = 2

----------------------------------------------------------------------------
(* SpecQueue: QueueForRemoteSend on one node, called by the schedulers of  *)
(* two local shards.  The accesses of the map p.forwardSequences are not   *)
(* atomic: each has a step at which it begins and one at which it ends.    *)

MaxQueueCalls == 3                      \* calls of QueueForRemoteSend
QueueShards == {DataShardIDBase, DataShardIDBase + 1}

\* the positions at which a call reads and writes the map
MapReading == {"reading"}
MapWriting == {"writingLoaded", "writing"}

\* another call is inside an access of the map
Overlaps(localShardID) ==
    \E other \in QueueShards \ {localShardID} : fqPC[other] \in MapReading \cup MapWriting

\* another call is writing the map
OverlapsWrite(localShardID) ==
    \E other \in QueueShards \ {localShardID} : fqPC[other] \in MapWriting

\* p.lock.RLock(): shared, so it is granted whoever else holds it (no
\* goroutine takes p.lock.Lock())
RLock(localShardID, from, to) ==
    /\ ~fqFatal
    /\ fqPC[localShardID] = from
    /\ fqReaders' = fqReaders + 1
    /\ fqPC' = [fqPC EXCEPT ![localShardID] = to]

\* QueueForRemoteSend is called; nextForwardSequence takes the read lock
QueueCall(localShardID) ==
    /\ fqCalls < MaxQueueCalls
    /\ RLock(localShardID, "idle", "next")
    /\ fqCalls' = fqCalls + 1
    /\ UNCHANGED <<fqSequence, fqMap, fqStored, fqFatal>>
    /\ UNCHANGED notQueueVars

\* nextForwardSequence: the lookup p.forwardSequences[localShardID] begins
MapReadBegin(localShardID) ==
    /\ ~fqFatal
    /\ fqPC[localShardID] = "next"
    /\ fqPC' = [fqPC EXCEPT ![localShardID] = "reading"]
    /\ UNCHANGED <<fqSequence, fqMap, fqStored, fqReaders, fqCalls, fqFatal>>
    /\ UNCHANGED notQueueVars

\* the lookup ends: on a hit the function returns lastSeq; on a miss it reads
\* the store, returns 1 when the store has no sequence, and otherwise goes
\* on to put the stored sequence into the map.  A lookup that ran while the
\* map was written can also end in the fatal error of the runtime.
MapReadEnd(localShardID, fatal) ==
    /\ ~fqFatal
    /\ fqPC[localShardID] = "reading"
    /\ fatal => OverlapsWrite(localShardID)
    /\ IF fatal
       THEN /\ fqFatal' = TRUE
            /\ UNCHANGED <<fqPC, fqSequence, fqReaders>>
       ELSE /\ UNCHANGED fqFatal
            /\ IF localShardID \in DOMAIN fqMap
               THEN /\ fqSequence' = [fqSequence EXCEPT ![localShardID] = fqMap[localShardID]]
                    /\ fqReaders' = fqReaders - 1
                    /\ fqPC' = [fqPC EXCEPT ![localShardID] = "queue"]
               ELSE IF fqStored[localShardID] = 0
               THEN /\ fqSequence' = [fqSequence EXCEPT ![localShardID] = 1]
                    /\ fqReaders' = fqReaders - 1
                    /\ fqPC' = [fqPC EXCEPT ![localShardID] = "queue"]
               ELSE /\ fqSequence' = [fqSequence EXCEPT ![localShardID] = fqStored[localShardID]]
                    /\ fqPC' = [fqPC EXCEPT ![localShardID] = "writingLoaded"]
                    /\ UNCHANGED fqReaders
    /\ UNCHANGED <<fqMap, fqStored, fqCalls>>
    /\ UNCHANGED notQueueVars

\* QueueForRemoteSend between the two functions: the row is added to the
\* batch, sequence++, and updateNextForwardSequence takes the read lock
QueueRow(localShardID) ==
    /\ RLock(localShardID, "queue", "update")
    /\ fqSequence' = [fqSequence EXCEPT ![localShardID] = @ + 1]
    /\ UNCHANGED <<fqMap, fqStored, fqCalls, fqFatal>>
    /\ UNCHANGED notQueueVars

\* updateNextForwardSequence: the assignment to the map begins
MapWriteBegin(localShardID) ==
    /\ ~fqFatal
    /\ fqPC[localShardID] = "update"
    /\ fqPC' = [fqPC EXCEPT ![localShardID] = "writing"]
    /\ UNCHANGED <<fqSequence, fqMap, fqStored, fqReaders, fqCalls, fqFatal>>
    /\ UNCHANGED notQueueVars

\* an assignment to the map ends and the function returns, releasing the
\* read lock; an assignment that ran while the map was read or written can
\* also end in the fatal error of the runtime.  After the assignment of
\* updateNextForwardSequence the call returns and its batch is written.
MapWriteEnd(localShardID, fatal) ==
    /\ ~fqFatal
    /\ fqPC[localShardID] \in MapWriting
    /\ fatal => Overlaps(localShardID)
    /\ IF fatal
       THEN /\ fqFatal' = TRUE
            /\ UNCHANGED <<fqPC, fqMap, fqStored, fqReaders>>
       ELSE /\ UNCHANGED fqFatal
            /\ fqMap' = MapPut(fqMap, localShardID, fqSequence[localShardID])
            /\ fqReaders' = fqReaders - 1
            /\ IF fqPC[localShardID] = "writing"
               THEN /\ fqPC' = [fqPC EXCEPT ![localShardID] = "idle"]
                    /\ fqStored' = [fqStored EXCEPT ![localShardID] = fqSequence[localShardID]]
               ELSE /\ fqPC' = [fqPC EXCEPT ![localShardID] = "queue"]
                    /\ UNCHANGED fqStored
    /\ UNCHANGED <<fqSequence, fqCalls>>
    /\ UNCHANGED notQueueVars

\* the node starts: the map is empty, the store holds the forward sequences
\* of earlier runs (0: none)
InitQueue ==
    /\ fqPC = [sh \in QueueShards |-> "idle"]
    /\ fqSequence = [sh \in QueueShards |-> 0]
    /\ fqMap = <<>>
    /\ fqStored \in [QueueShards -> {0, 5}]
    /\ fqReaders = 0
    /\ fqCalls = 0
    /\ fqFatal = FALSE
    /\ CoreIdle
    /\ SnapIdle
    /\ RetryIdle
    /\ GenIdle
    /\ PageIdle
    /\ SeqIdle
    /\ DelIdle
    /\ RowIdle
    /\ StopIdle

NextQueue ==
    \/ \E sh \in QueueShards : QueueCall(sh)
    \/ \E sh \in QueueShards : MapReadBegin(sh)
    \/ \E sh \in QueueShards, fatal \in BOOLEAN : MapReadEnd(sh, fatal)
    \/ \E sh \in QueueShards : QueueRow(sh)
    \/ \E sh \in QueueShards : MapWriteBegin(sh)
    \/ \E sh \in QueueShards, fatal \in BOOLEAN : MapWriteEnd(sh, fatal)

SpecQueue == InitQueue /\ [][NextQueue]_vars

\* C39: the map forwardSequences is never written by one goroutine while
\* another reads or writes it: the calls of QueueForRemoteSend for different
\* local shards exclude each other on every write of the map.
C39_MapWritesExclusive ==
    \A sh \in QueueShards : fqPC[sh] \in MapWriting => ~Overlaps(sh)

====
